---- MODULE Spec2Model ----
(***************************************************************************)
(* One reconciliation pass of sync-tool (src/main.go, func main): the git  *)
(* synchronizer, the disk scan, the Arcane listing, the classification of  *)
(* the disk projects and the create and sync loops.  Every git subprocess  *)
(* and every Arcane API call is one step; its outcome (success or error)   *)
(* is chosen by the environment.                                           *)
(*                                                                         *)
(* The remote branch does not move while the pass runs: `upstream` is the  *)
(* tip of the branch on the git remote, read by every fetch.               *)
(*                                                                         *)
(* Spec is one pass from every starting state; SpecHeld is one pass over   *)
(* two disk projects the server already holds; SpecTwice lets the timer    *)
(* start the program again after a pass; SpecSelect and SpecDetect apply   *)
(* the duplicate tie-break and the change-set detector on their own.       *)
(***************************************************************************)
EXTENDS Integers, Sequences, FiniteSets, TLC

VARIABLES
    pc,                   \* position of main
    head,                 \* commit HEAD points to
    originTip,            \* the tracking ref origin/<branch>
    upstream,             \* tip of the branch on the git remote
    trackedDirty,         \* uncommitted modifications of tracked files
    untracked,            \* untracked files in the working tree
    status,               \* *GitStatus returned by getGitStatus
    oldCommit,            \* oldCommit of main
    changesOccurred,      \* changesOccurred of main
    gitLog,               \* runGitCommand invocations, in order, with outcome
    tree,                 \* content of the repository root at the remote tip
    remote,               \* the projects the Arcane server holds, in listing order
    diskProjects,         \* diskProjects of main
    arcaneProjects,       \* arcaneProjects of main
    arcaneProjectsByName, \* arcaneProjectsByName of main
    changedProjects,      \* changedProjects of main (a set of names)
    projectsToCreate,     \* projectsToCreate of main
    projectsToSync,       \* projectsToSync of main
    idx,                  \* index of the range loop in progress
    projectID,            \* projectID of the loop body in progress
    apiLog,               \* Arcane API calls, in order, with outcome
    warnLog,              \* per-project diagnostics of logWarning and logError
    report,               \* the closing logSuccess line of main, "" before it
    run,                  \* number of the pass: the timer starts main again
    start,                \* start of listProjectsAll: offset of the next page
    all,                  \* all of listProjectsAll: the pages received so far
    resp,                 \* resp of doRequest: the answer to the request in flight
    err,                  \* the error doRequest's caller returned, NoError for nil
    peer,                 \* a second invocation of the tool in its create loop
    config,               \* config of main: the required environment settings
    upstreamTree          \* the tree of the tip of the branch on the git remote

vars == <<pc, head, originTip, upstream, trackedDirty, untracked, status,
          oldCommit, changesOccurred, gitLog, tree, remote, diskProjects,
          arcaneProjects, arcaneProjectsByName, changedProjects,
          projectsToCreate, projectsToSync, idx, projectID, apiLog, warnLog,
          report, run, start, all, resp, err, peer, config, upstreamTree>>

gitVars == <<head, originTip, upstream, trackedDirty, untracked, status,
             oldCommit, changesOccurred, gitLog>>

engineVars == <<diskProjects, arcaneProjects, arcaneProjectsByName,
                changedProjects, projectsToCreate, projectsToSync, idx,
                projectID, apiLog, warnLog, report>>

(***************************************************************************)
(* Bounds of the model.                                                    *)
(***************************************************************************)
MaxAhead == 1        \* local-only commits at the start of the pass
MaxBehind == 1       \* remote-only commits at the start of the pass
MaxRemote == 2       \* projects the Arcane server holds at the start
MaxCandidates == 2   \* candidates handed to the tie-break on its own
MaxRuns == 2         \* passes the timer starts one after the other
MaxProjects == 101   \* projects the server holds when the pages are fetched

(***************************************************************************)
(* Git: commits, ahead/behind counts, working tree.                        *)
(***************************************************************************)
\* The merge base, the local-only commits <<"L",k>> and the remote-only
\* commits <<"R",k>>; the parent of <<s,k>> is <<s,k-1>>, or Base for k = 1.
Base == <<"B", 0>>

Tip(side, n) == IF n = 0 THEN Base ELSE <<side, n>>

Ancestors(c) == IF c = Base THEN {Base}
                ELSE {<<c[1], k>> : k \in 1..c[2]} \cup {Base}

\* git rev-list --left-right --count origin/<branch>...HEAD prints
\* "behind ahead".
RevListCount(origin, h) ==
    [Behind |-> Cardinality(Ancestors(origin) \ Ancestors(h)),
     Ahead  |-> Cardinality(Ancestors(h) \ Ancestors(origin))]

\* git status --porcelain prints a line per modified tracked file and per
\* untracked file.
PorcelainNonEmpty == trackedDirty \/ untracked # {}

getGitStatus ==
    [Ahead          |-> RevListCount(originTip, head).Ahead,
     Behind         |-> RevListCount(originTip, head).Behind,
     HasLocalChange |-> PorcelainNonEmpty]

\* Untracked files that may lie in the working tree: none, or one the clean
\* call excludes together with one it does not.
UntrackedPool == {{}, {".env", "notes.txt"}}

\* Untracked paths the clean call may meet
CleanFiles == {".env", ".env.global", ".env.local", "dev.env.local",
               "web/.env", ".env.production", "env.local", "notes.txt"}

\* The last element of a path: a pattern without a slash is matched against
\* it at every level of the tree
UntrackedBase(f) == IF f = "web/.env" THEN ".env" ELSE f

\* A file name cut at its dots
DotParts(name) ==
    CASE name = ".env"            -> <<"", "env">>
      [] name = ".env.global"     -> <<"", "env", "global">>
      [] name = ".env.local"      -> <<"", "env", "local">>
      [] name = "dev.env.local"   -> <<"dev", "env", "local">>
      [] name = ".env.production" -> <<"", "env", "production">>
      [] name = "env.local"       -> <<"env", "local">>
      [] name = "notes.txt"       -> <<"notes", "txt">>

\* CleanExcluded with the pattern .env alone
CleanExcluded_OnlyDotEnv(f) == DotParts(UntrackedBase(f)) = <<"", "env">>

\* The -e patterns of the git clean call: .env.global, *.env.local, .env
CleanExcluded(f) ==
    LET parts == DotParts(UntrackedBase(f))
    IN  \/ parts = <<"", "env", "global">>
        \/ /\ Len(parts) >= 3
           /\ parts[Len(parts) - 1] = "env"
           /\ parts[Len(parts)] = "local"
        \/ parts = <<"", "env">>

GitCleanResult(files) == {f \in files : CleanExcluded(f)}

GitCmd(c, target, ok) == [cmd |-> c, target |-> target, ok |-> ok]

(***************************************************************************)
(* The state main starts in.                                               *)
(***************************************************************************)
\* No answer: HTTPClient.Do returned an error
NoResponse == [StatusCode |-> 0, Body |-> ""]

\* The nil error
NoError == [kind |-> "", status |-> 0, body |-> ""]

\* No second invocation is running
NoPeer == [pc |-> "none", name |-> "", projectID |-> ""]

\* A configuration with the three required settings
FullConfig == [RepoPath |-> "/opt/compose", ArcaneBaseURL |-> "http://arcane",
               ArcaneAPIKey |-> "key"]

NoStatus == [Ahead |-> 0, Behind |-> 0, HasLocalChange |-> FALSE]

InitGit ==
    /\ \E a \in 0..MaxAhead, b \in 0..MaxBehind :
          /\ head = Tip("L", a)
          /\ upstream = Tip("R", b)
    /\ originTip = Base
    /\ trackedDirty \in BOOLEAN
    /\ untracked \in UntrackedPool
    /\ status = NoStatus
    /\ oldCommit = Base
    /\ changesOccurred = FALSE
    /\ gitLog = <<>>

(***************************************************************************)
(* Git State Synchronizer, main lines 326-426.                             *)
(***************************************************************************)
\* runGitCommand("fetch", "origin"), lines 326-331
FetchOrigin ==
    /\ pc = "fetch"
    /\ \E ok \in BOOLEAN :
          /\ gitLog' = Append(gitLog, GitCmd("fetch", "origin", ok))
          /\ originTip' = IF ok THEN upstream ELSE originTip
          /\ pc' = IF ok THEN "status" ELSE "exit1"
    /\ UNCHANGED <<head, upstream, trackedDirty, untracked, status, oldCommit,
                   changesOccurred, tree, remote>>
    /\ UNCHANGED <<engineVars, run, start, all, resp, err, peer, config,
                   upstreamTree>>

\* ReadStatus without the getCurrentCommit of lines 349-353
ReadStatus_RecordsNothing ==
    /\ pc = "status"
    /\ \E ok \in BOOLEAN :
          IF ok
          THEN /\ status' = getGitStatus
               /\ pc' = "branch"
          ELSE /\ pc' = "exit1"
               /\ UNCHANGED status
    /\ UNCHANGED <<head, originTip, upstream, trackedDirty, untracked,
                   oldCommit, changesOccurred, gitLog, tree, remote>>
    /\ UNCHANGED <<engineVars, run, start, all, resp, err, peer, config,
                   upstreamTree>>

\* getCurrentBranch, getGitStatus, getCurrentCommit, lines 333-355
ReadStatus ==
    /\ pc = "status"
    /\ \E ok \in BOOLEAN :
          IF ok
          THEN /\ status' = getGitStatus
               /\ oldCommit' = head
               /\ pc' = "branch"
          ELSE /\ pc' = "exit1"
               /\ UNCHANGED <<status, oldCommit>>
    /\ UNCHANGED <<head, originTip, upstream, trackedDirty, untracked,
                   changesOccurred, gitLog, tree, remote>>
    /\ UNCHANGED <<engineVars, run, start, all, resp, err, peer, config,
                   upstreamTree>>

\* runGitCommand("fetch", "origin", branch): lines 364-367, 383-386, 414-417
FetchBranch(next) ==
    /\ \E ok \in BOOLEAN :
          /\ gitLog' = Append(gitLog, GitCmd("fetch", "origin branch", ok))
          /\ originTip' = IF ok THEN upstream ELSE originTip
          /\ pc' = IF ok THEN next ELSE "exit1"
    /\ UNCHANGED <<head, upstream, trackedDirty, untracked, status, oldCommit,
                   changesOccurred, tree, remote>>
    /\ UNCHANGED <<engineVars, run, start, all, resp, err, peer, config,
                   upstreamTree>>

\* ResetToRemote issuing git reset --hard HEAD: the branch pointer stays
ResetToRemote_KeepsHead(next, changed) ==
    /\ \E ok \in BOOLEAN :
          /\ gitLog' = Append(gitLog, GitCmd("reset", "origin/branch", ok))
          /\ head' = head
          /\ trackedDirty' = IF ok THEN FALSE ELSE trackedDirty
          /\ changesOccurred' = IF ok THEN changed ELSE changesOccurred
          /\ pc' = IF ok THEN next ELSE "exit1"
    /\ UNCHANGED <<originTip, upstream, untracked, status, oldCommit, tree,
                   remote>>
    /\ UNCHANGED <<engineVars, run, start, all, resp, err, peer, config,
                   upstreamTree>>

\* ResetToRemote logging a failure as a warning and going on
ResetToRemote_IgnoresFailure(next, changed) ==
    /\ \E ok \in BOOLEAN :
          /\ gitLog' = Append(gitLog, GitCmd("reset", "origin/branch", ok))
          /\ head' = IF ok THEN originTip ELSE head
          /\ trackedDirty' = IF ok THEN FALSE ELSE trackedDirty
          /\ changesOccurred' = changed
          /\ pc' = next
          /\ tree' = IF ok THEN upstreamTree ELSE tree
    /\ UNCHANGED <<originTip, upstream, untracked, status, oldCommit, remote>>
    /\ UNCHANGED <<engineVars, run, start, all, resp, err, peer, config,
                   upstreamTree>>

\* ResetToRemote moving the branch and leaving the files as they are
ResetToRemote_KeepsTree(next, changed) ==
    /\ \E ok \in BOOLEAN :
          /\ gitLog' = Append(gitLog, GitCmd("reset", "origin/branch", ok))
          /\ head' = IF ok THEN originTip ELSE head
          /\ trackedDirty' = IF ok THEN FALSE ELSE trackedDirty
          /\ changesOccurred' = IF ok THEN changed ELSE changesOccurred
          /\ pc' = IF ok THEN next ELSE "exit1"
    /\ UNCHANGED <<originTip, upstream, untracked, status, oldCommit, tree,
                   remote>>
    /\ UNCHANGED <<engineVars, run, start, all, resp, err, peer, config,
                   upstreamTree>>

\* runGitCommand("reset", "--hard", "origin/<branch>"): lines 368-371,
\* 387-390, 420-423; `changed` is the value changesOccurred has afterwards
ResetToRemote(next, changed) ==
    /\ \E ok \in BOOLEAN :
          /\ gitLog' = Append(gitLog, GitCmd("reset", "origin/branch", ok))
          /\ head' = IF ok THEN originTip ELSE head
          /\ trackedDirty' = IF ok THEN FALSE ELSE trackedDirty
          /\ changesOccurred' = IF ok THEN changed ELSE changesOccurred
          /\ pc' = IF ok THEN next ELSE "exit1"
          /\ tree' = IF ok THEN upstreamTree ELSE tree
    /\ UNCHANGED <<originTip, upstream, untracked, status, oldCommit, remote>>
    /\ UNCHANGED <<engineVars, run, start, all, resp, err, peer, config,
                   upstreamTree>>

\* CleanUntracked ending the process when git clean fails
CleanUntracked_ExitsOnFailure(next, changed) ==
    /\ \E ok \in BOOLEAN :
          /\ gitLog' = Append(gitLog, GitCmd("clean", "-fd", ok))
          /\ untracked' = IF ok THEN GitCleanResult(untracked) ELSE untracked
          /\ pc' = IF ok THEN next ELSE "exit1"
    /\ changesOccurred' = changed
    /\ UNCHANGED <<head, originTip, upstream, trackedDirty, status, oldCommit,
                   tree, remote>>
    /\ UNCHANGED <<engineVars, run, start, all, resp, err, peer, config,
                   upstreamTree>>

\* runGitCommand("clean", "-fd", "-e", ...): lines 372-375, 407-410; a
\* failure is a warning
CleanUntracked(next, changed) ==
    /\ \E ok \in BOOLEAN :
          /\ gitLog' = Append(gitLog, GitCmd("clean", "-fd", ok))
          /\ untracked' = IF ok THEN GitCleanResult(untracked) ELSE untracked
    /\ changesOccurred' = changed
    /\ pc' = next
    /\ UNCHANGED <<head, originTip, upstream, trackedDirty, status, oldCommit,
                   tree, remote>>
    /\ UNCHANGED <<engineVars, run, start, all, resp, err, peer, config,
                   upstreamTree>>

\* diverged, lines 359-377
DivergedFetch ==
    /\ pc = "branch"
    /\ status.Ahead > 0 /\ status.Behind > 0
    /\ FetchBranch("div_reset")

DivergedReset ==
    /\ pc = "div_reset"
    /\ ResetToRemote("div_clean", changesOccurred)

DivergedClean ==
    /\ pc = "div_clean"
    /\ CleanUntracked("scan", TRUE)

\* ahead only, lines 378-393
AheadFetch ==
    /\ pc = "branch"
    /\ ~(status.Ahead > 0 /\ status.Behind > 0)
    /\ status.Ahead > 0
    /\ FetchBranch("ahead_reset")

\* AheadReset setting changesOccurred as the diverged branch does
AheadReset_MarksChanged ==
    /\ pc = "ahead_reset"
    /\ ResetToRemote("scan", TRUE)

AheadReset ==
    /\ pc = "ahead_reset"
    /\ ResetToRemote("scan", changesOccurred)

\* behind only with local changes, lines 396-411:
\* runGitCommand("reset", "--hard", "HEAD"), a failure is a warning
BehindResetHead ==
    /\ pc = "branch"
    /\ status.Ahead = 0 /\ status.Behind > 0
    /\ status.HasLocalChange
    /\ \E ok \in BOOLEAN :
          /\ gitLog' = Append(gitLog, GitCmd("reset", "HEAD", ok))
          /\ trackedDirty' = IF ok THEN FALSE ELSE trackedDirty
    /\ pc' = "behind_clean"
    /\ UNCHANGED <<head, originTip, upstream, untracked, status, oldCommit,
                   changesOccurred, tree, remote>>
    /\ UNCHANGED <<engineVars, run, start, all, resp, err, peer, config,
                   upstreamTree>>

BehindClean ==
    /\ pc = "behind_clean"
    /\ CleanUntracked("behind_fetch", changesOccurred)

\* BehindFetch taken from the branch test whether or not the tree is dirty
BehindFetch_SkipsCleanup ==
    /\ \/ pc = "behind_fetch"
       \/ /\ pc = "branch"
          /\ status.Ahead = 0 /\ status.Behind > 0
    /\ FetchBranch("behind_reset")

\* behind only, lines 413-426
BehindFetch ==
    /\ \/ pc = "behind_fetch"
       \/ /\ pc = "branch"
          /\ status.Ahead = 0 /\ status.Behind > 0
          /\ ~status.HasLocalChange
    /\ FetchBranch("behind_reset")

BehindReset ==
    /\ pc = "behind_reset"
    /\ ResetToRemote("scan", TRUE)

\* in sync: neither branch of lines 359-426 is taken
InSync ==
    /\ pc = "branch"
    /\ status.Ahead = 0 /\ status.Behind = 0
    /\ pc' = "scan"
    /\ UNCHANGED gitVars
    /\ UNCHANGED <<tree, remote>>
    /\ UNCHANGED <<engineVars, run, start, all, resp, err, peer, config,
                   upstreamTree>>

Synchronize ==
    \/ FetchOrigin \/ ReadStatus
    \/ DivergedFetch \/ DivergedReset \/ DivergedClean
    \/ AheadFetch \/ AheadReset
    \/ BehindResetHead \/ BehindClean \/ BehindFetch \/ BehindReset
    \/ InSync

(***************************************************************************)
(* Disk Inventory Scanner: listDiskProjects and findComposeFile.           *)
(***************************************************************************)
\* Entries of the repository root in the order os.ReadDir returns them
\* (sorted by file name).
RootEntries == <<".git", "README.md", "app", "syncTool", "web">>

\* A directory holding `files`, of which those in `empty` have no content
DirWith(files, empty) == [isDir |-> TRUE, files |-> files, empty |-> empty]

Dir(files) == DirWith(files, {})
File == [isDir |-> FALSE, files |-> {}, empty |-> {}]

\* Working trees the remote tip may hold: the project web has a manifest or
\* has none.
TreeWith(webFiles) ==
    [e \in {".git", "README.md", "app", "syncTool", "web"} |->
        CASE e = ".git"      -> Dir({"compose.yaml"})
          [] e = "README.md" -> File
          [] e = "app"       -> Dir({"compose.yaml", "docker-compose.yml",
                                     ".env"})
          [] e = "syncTool"  -> Dir({"docker-compose.yml"})
          [] e = "web"       -> Dir(webFiles)]

TreePool == {TreeWith({"notes.md"}),
             TreeWith({"docker-compose.yml", "compose.yml"})}

\* composeFiles of findComposeFile, in priority order
composeFiles == <<"compose.yaml", "compose.yml", "docker-compose.yaml",
                  "docker-compose.yml">>

\* findComposeFile: the first name of composeFiles present in the
\* directory, "" when there is none
RECURSIVE FirstPresent(_, _)
FirstPresent(files, i) ==
    IF i > Len(composeFiles) THEN ""
    ELSE IF composeFiles[i] \in files THEN composeFiles[i]
    ELSE FirstPresent(files, i + 1)

\* The files os.Stat and os.ReadFile find in the directory `name` of the
\* root: none when there is no such directory
FilesOf(t, name) == IF name \in DOMAIN t THEN t[name].files ELSE {}

\* findComposeFile preferring docker-compose.yml when it is there
findComposeFile_PrefersDockerCompose(t, name) ==
    IF "docker-compose.yml" \in FilesOf(t, name) THEN "docker-compose.yml"
    ELSE FirstPresent(FilesOf(t, name), 1)

findComposeFile(t, name) == FirstPresent(FilesOf(t, name), 1)

\* What os.ReadFile returns for a file of a project directory: every file
\* with content has a content of its own, written <<directory, file>>; <<>>
\* is the empty string
FileContent(t, name, file) ==
    IF file \in FilesOf(t, name) /\ file \in t[name].empty THEN <<>>
    ELSE <<name, file>>

\* string(composeContent) of lines 512 and 585, when the read succeeds
ReadManifest(t, name) == FileContent(t, name, findComposeFile(t, name))

\* envContent of lines 519-523 and 592-596: "" when there is no .env
ReadEnv(t, name) ==
    IF ".env" \in FilesOf(t, name) THEN FileContent(t, name, ".env")
    ELSE <<>>

\* strings.HasPrefix(entry.Name(), ".")
HasDotPrefix(name) == name \in {".git", ".github", ".env"}

\* ListedEntry without the test for the reserved name syncTool
ListedEntry_NoReservedName(t, e) ==
    /\ t[e].isDir
    /\ ~HasDotPrefix(e)
    /\ findComposeFile(t, e) # ""

ListedEntry(t, e) ==
    /\ t[e].isDir
    /\ ~(HasDotPrefix(e) \/ e = "syncTool")
    /\ findComposeFile(t, e) # ""

listDiskProjects(t) == SelectSeq(RootEntries, LAMBDA e : ListedEntry(t, e))

(***************************************************************************)
(* Remote inventory: the Arcane server and the client calls.               *)
(***************************************************************************)
ProjectNames == {"app", "app2", "web"}

ServerIds == <<"p1", "p2", "p3", "p4">>

ArcaneProject(id, name, updatedAt, createdAt) ==
    [ID |-> id, Name |-> name, UpdatedAt |-> updatedAt, CreatedAt |-> createdAt]

\* Projects the server may hold at the start, as <<name, updatedAt,
\* createdAt>>: app is a disk project, held with an earlier updatedAt or
\* with a later createdAt and an updatedAt that does not parse; app2 is not
\* on disk.
RemoteKinds == {<<"app", "2024-05-01T10:00:00Z", "">>,
                <<"app", "not-a-date", "2024-05-02T10:00:00.25Z">>,
                <<"app2", "2024-05-01T10:00:00Z", "">>}

RemotePool ==
    UNION {{[i \in 1..n |-> ArcaneProject(ServerIds[i], f[i][1], f[i][2], f[i][3])] :
              f \in [1..n -> RemoteKinds]} : n \in 0..MaxRemote}

\* ID the server gives a project it creates
NewId(name) == CASE name = "app" -> "new-app"
                 [] name = "web" -> "new-web"
                 [] OTHER        -> "new-app2"

\* The server's ?search= filter matches names containing the search text.
SearchMatches(search, name) ==
    \/ search = ""
    \/ search = name
    \/ search = "app" /\ name = "app2"

\* listProjectsAll(search), when no request fails
listProjectsAll(search) ==
    SelectSeq(remote, LAMBDA p : SearchMatches(search, p.Name))

\* FindProjectsByNameExact without the exact-name filter of lines 159-164
FindProjectsByNameExact_NoFilter(projectName) == listProjectsAll(projectName)

\* FindProjectsByNameExact, when the listing does not fail
FindProjectsByNameExact(projectName) ==
    SelectSeq(listProjectsAll(projectName), LAMBDA p : p.Name = projectName)

\* arcaneProjectsByName as built by lines 450-454; a name that is no key of
\* the Go map reads as the empty slice
IndexByName(projects) ==
    [n \in ProjectNames |-> SelectSeq(projects, LAMBDA p : p.Name = n)]

\* A request as the Arcane server receives it, with its outcome, the pass
\* that sent it and the fields of its JSON body, as <<field, value>> pairs
ApiRequest(op, name, id, ok, body) ==
    [op |-> op, name |-> name, id |-> id, ok |-> ok, run |-> run,
     body |-> body]

\* A request without a body
ApiCall(op, name, id, ok) == ApiRequest(op, name, id, ok, {})

\* reqBody of CreateProject, lines 223-229
CreateBody(name, composeContent, envContent) ==
    {<<"name", name>>, <<"composeContent", composeContent>>}
       \cup (IF envContent # <<>> THEN {<<"envContent", envContent>>} ELSE {})

\* UpdateBody carrying envContent whatever it is
UpdateBody_AlwaysEnv(composeContent, envContent) ==
    (IF composeContent # <<>> THEN {<<"composeContent", composeContent>>}
     ELSE {})
       \cup {<<"envContent", envContent>>}

\* reqBody of UpdateProject, lines 250-256
UpdateBody(composeContent, envContent) ==
    (IF composeContent # <<>> THEN {<<"composeContent", composeContent>>}
     ELSE {})
       \cup (IF envContent # <<>> THEN {<<"envContent", envContent>>} ELSE {})

IdsOf(projects) == [i \in 1..Len(projects) |-> projects[i].ID]

Warning(kind, name, projects) ==
    [kind |-> kind, name |-> name, ids |-> IdsOf(projects)]

(***************************************************************************)
(* Duplicate tie-break: parseArcaneTime and selectPreferredProjectID.      *)
(***************************************************************************)
\* strings.TrimSpace
TrimSpace(value) ==
    CASE value = " 2024-05-03T08:00:00Z " -> "2024-05-03T08:00:00Z"
      [] value = "  "                     -> ""
      [] OTHER                            -> value

\* time.Parse(time.RFC3339Nano, v), then time.Parse(time.RFC3339, v): the
\* instant as hours after 2024-05-01T09:00:00Z, 0 when neither layout parses
ParseRFC3339(v) ==
    CASE v = "2024-05-01T10:00:00Z"    -> 1
      [] v = "2024-05-02T10:00:00.25Z" -> 25
      [] v = "2024-05-03T08:00:00Z"    -> 47
      [] OTHER                         -> 0

\* The zero time.Time is 0.
parseArcaneTime(value) ==
    IF TrimSpace(value) = "" THEN 0 ELSE ParseRFC3339(TrimSpace(value))

IsZero(t) == t = 0

\* lines 667-670 and 673-676
EffectiveTime(p) ==
    IF IsZero(parseArcaneTime(p.UpdatedAt))
    THEN parseArcaneTime(p.CreatedAt)
    ELSE parseArcaneTime(p.UpdatedAt)

\* Replaces preferring the older timestamp
Replaces_Before(t, bestTime) == ~IsZero(t) /\ (IsZero(bestTime) \/ t < bestTime)

\* Replaces with !t.Before(bestTime): a tie moves best to the later entry
Replaces_NotBefore(t, bestTime) ==
    ~IsZero(t) /\ (IsZero(bestTime) \/ t >= bestTime)

\* t.After(bestTime), lines 677-680
Replaces(t, bestTime) == ~IsZero(t) /\ (IsZero(bestTime) \/ t > bestTime)

\* the loop of lines 672-681: index of best after candidates[i..]
RECURSIVE BestFrom(_, _, _)
BestFrom(candidates, i, best) ==
    IF i > Len(candidates) THEN best
    ELSE IF Replaces(EffectiveTime(candidates[i]),
                     EffectiveTime(candidates[best]))
         THEN BestFrom(candidates, i + 1, i)
         ELSE BestFrom(candidates, i + 1, best)

selectPreferredProjectID(candidates) ==
    IF Len(candidates) = 0 THEN ""
    ELSE IF Len(candidates) = 1 THEN candidates[1].ID
    ELSE IF candidates[BestFrom(candidates, 2, 1)].ID # ""
         THEN candidates[BestFrom(candidates, 2, 1)].ID
         ELSE candidates[1].ID

(***************************************************************************)
(* Change-Set Detector: detectChangedProjects.                             *)
(***************************************************************************)
\* Paths git diff --name-only may print, as their components
DiffPaths == {<<"app", "compose.yaml">>,
              <<"app", "docker-compose.yml">>,
              <<"app2", "docker-compose.yml">>,
              <<"docs", "readme.md">>}

\* filepath.Base(file)
PathBase(file) == file[Len(file)]

\* ParentBase taking the top-level directory of the path
ParentBase_TopLevel(file) == IF Len(file) < 2 THEN "." ELSE file[1]

\* filepath.Base(filepath.Dir(file))
ParentBase(file) == IF Len(file) < 2 THEN "." ELSE file[Len(file) - 1]

IsManifestName(filename) ==
    filename \in {"compose.yaml", "compose.yml", "docker-compose.yaml",
                  "docker-compose.yml"}

\* detectChangedProjects using what git diff printed although it failed
detectChangedProjects_UsesFailedDiff(old, new, changedFiles, diffOk) ==
    IF old = new THEN {}
    ELSE {ParentBase(f) : f \in {g \in changedFiles : IsManifestName(PathBase(g))}}

\* changedFiles is the output of git diff; diffOk is FALSE when git diff
\* fails
detectChangedProjects(old, new, changedFiles, diffOk) ==
    IF old = new THEN {}
    ELSE IF ~diffOk THEN {}
    ELSE {ParentBase(f) : f \in {g \in changedFiles : IsManifestName(PathBase(g))}}

(***************************************************************************)
(* Reconciliation Engine, main lines 431-615.                              *)
(***************************************************************************)
InitEngine ==
    /\ tree \in TreePool
    /\ remote \in RemotePool
    /\ diskProjects = <<>>
    /\ arcaneProjects = <<>>
    /\ arcaneProjectsByName = IndexByName(<<>>)
    /\ changedProjects = {}
    /\ projectsToCreate = <<>>
    /\ projectsToSync = <<>>
    /\ idx = 0
    /\ projectID = ""
    /\ apiLog = <<>>
    /\ warnLog = <<>>
    /\ report = ""
    /\ run = 1
    /\ start = 0
    /\ all = <<>>
    /\ resp = NoResponse
    /\ err = NoError
    /\ peer = NoPeer
    /\ config = FullConfig
    /\ upstreamTree = tree

Init == pc = "fetch" /\ InitGit /\ InitEngine

\* listDiskProjects, lines 434-440; os.ReadDir may fail
ListDisk ==
    /\ pc = "scan"
    /\ \E ok \in BOOLEAN :
          /\ diskProjects' = IF ok THEN listDiskProjects(tree) ELSE diskProjects
          /\ pc' = IF ok THEN "list" ELSE "exit1"
    /\ UNCHANGED <<gitVars, report, run, start, all, resp, err, peer, config,
                   upstreamTree>>
    /\ UNCHANGED <<tree, remote, arcaneProjects, arcaneProjectsByName,
                   changedProjects, projectsToCreate, projectsToSync, idx,
                   projectID, apiLog, warnLog>>

\* DuplicateOrders reporting a name only when it has more than two entries
DuplicateOrders_MoreThanTwo(byName) ==
    LET dups == {n \in ProjectNames : Len(byName[n]) > 2}
    IN  {o \in [1..Cardinality(dups) -> dups] :
            \A i, j \in 1..Cardinality(dups) : o[i] = o[j] => i = j}

\* Names with more than one entry, lines 457-465; Go ranges over the map in
\* an unspecified order
DuplicateOrders(byName) ==
    LET dups == {n \in ProjectNames : Len(byName[n]) > 1}
    IN  {o \in [1..Cardinality(dups) -> dups] :
            \A i, j \in 1..Cardinality(dups) : o[i] = o[j] => i = j}

\* ListArcane ending the process when the list call fails
ListArcane_ExitsOnFailure ==
    /\ pc = "list"
    /\ \E ok \in BOOLEAN :
          /\ apiLog' = Append(apiLog, ApiCall("list", "", "", ok))
          /\ arcaneProjects' = IF ok THEN listProjectsAll("") ELSE <<>>
          /\ pc' = IF ok THEN "detect" ELSE "exit1"
    /\ arcaneProjectsByName' = IndexByName(arcaneProjects')
    /\ \E o \in DuplicateOrders(arcaneProjectsByName') :
          warnLog' = warnLog \o
             [i \in 1..Len(o) |->
                 Warning("duplicate", o[i], arcaneProjectsByName'[o[i]])]
    /\ UNCHANGED <<gitVars, report, run, start, all, resp, err, peer, config,
                   upstreamTree>>
    /\ UNCHANGED <<tree, remote, diskProjects, changedProjects,
                   projectsToCreate, projectsToSync, idx, projectID>>

\* arcane.ListProjects and the index, lines 442-465
ListArcane ==
    /\ pc = "list"
    /\ \E ok \in BOOLEAN :
          /\ apiLog' = Append(apiLog, ApiCall("list", "", "", ok))
          /\ arcaneProjects' = IF ok THEN listProjectsAll("") ELSE <<>>
    /\ arcaneProjectsByName' = IndexByName(arcaneProjects')
    /\ \E o \in DuplicateOrders(arcaneProjectsByName') :
          warnLog' = warnLog \o
             [i \in 1..Len(o) |->
                 Warning("duplicate", o[i], arcaneProjectsByName'[o[i]])]
    /\ pc' = "detect"
    /\ UNCHANGED <<gitVars, report, run, start, all, resp, err, peer, config,
                   upstreamTree>>
    /\ UNCHANGED <<tree, remote, diskProjects, changedProjects,
                   projectsToCreate, projectsToSync, idx, projectID>>

\* lines 775-780: logError("Failed to get changed files") when git diff,
\* which is run for different revisions only, fails
DiffLogged(diffOk) ==
    IF oldCommit # head /\ ~diffOk
    THEN Append(warnLog, Warning("diff", "", <<>>))
    ELSE warnLog

\* Detect calling the detector whether or not changesOccurred is set
Detect_Always ==
    /\ pc = "detect"
    /\ \E commitOk \in BOOLEAN :
          IF commitOk
          THEN /\ \E changedFiles \in SUBSET DiffPaths, diffOk \in BOOLEAN :
                     /\ changedProjects' =
                           detectChangedProjects(oldCommit, head,
                                                 changedFiles, diffOk)
                     /\ warnLog' = DiffLogged(diffOk)
               /\ pc' = "classify"
          ELSE /\ pc' = "exit1"
               /\ UNCHANGED <<changedProjects, warnLog>>
    /\ UNCHANGED <<gitVars, report, run, start, all, resp, err, peer, config,
                   upstreamTree>>
    /\ UNCHANGED <<tree, remote, diskProjects, arcaneProjects,
                   arcaneProjectsByName, projectsToCreate, projectsToSync,
                   idx, projectID, apiLog>>

\* lines 471-482: getCurrentCommit may fail; git diff prints changedFiles or
\* fails
Detect ==
    /\ pc = "detect"
    /\ IF changesOccurred
       THEN \E commitOk \in BOOLEAN :
               IF commitOk
               THEN /\ \E changedFiles \in SUBSET DiffPaths, diffOk \in BOOLEAN :
                          /\ changedProjects' =
                                detectChangedProjects(oldCommit, head,
                                                      changedFiles, diffOk)
                          /\ warnLog' = DiffLogged(diffOk)
                    /\ pc' = "classify"
               ELSE /\ pc' = "exit1"
                    /\ UNCHANGED <<changedProjects, warnLog>>
       ELSE /\ changedProjects' = {}
            /\ pc' = "classify"
            /\ UNCHANGED warnLog
    /\ UNCHANGED <<gitVars, report, run, start, all, resp, err, peer, config,
                   upstreamTree>>
    /\ UNCHANGED <<tree, remote, diskProjects, arcaneProjects,
                   arcaneProjectsByName, projectsToCreate, projectsToSync,
                   idx, projectID, apiLog>>

\* NeedsCreate taking every disk project for a missing one
NeedsCreate_Always(name) == Len(arcaneProjectsByName[name]) >= 0

\* lines 484-493
NeedsCreate(name) == Len(arcaneProjectsByName[name]) = 0

\* NeedsSync taking every listed project when git reported no change
NeedsSync_OrNoGitChange(name) ==
    ~NeedsCreate(name) /\ (name \in changedProjects \/ ~changesOccurred)

\* NeedsSync without the change-set test
NeedsSync_IgnoresChangeSet(name) == ~NeedsCreate(name)

\* NeedsSync with the change-set test inverted
NeedsSync_Unchanged(name) == ~NeedsCreate(name) /\ name \notin changedProjects

NeedsSync(name) == ~NeedsCreate(name) /\ name \in changedProjects

\* line 614: the closing line main writes when it falls off the two loops
Reported(next) ==
    IF next = "done" THEN "Compose sync completed successfully!" ELSE ""

\* Where main goes after the create loop body for projectsToCreate[i]
\* (lines 503, 567): <<pc, idx>>
AfterCreate(i) ==
    IF i < Len(projectsToCreate) THEN <<"create_read", i + 1>>
    ELSE IF Len(projectsToSync) > 0 THEN <<"sync_read", 1>>
    ELSE <<"done", 0>>

\* Where main goes after the sync loop body for projectsToSync[i]
\* (lines 569, 614)
AfterSync(i) ==
    IF i < Len(projectsToSync) THEN <<"sync_read", i + 1>>
    ELSE <<"done", 0>>

\* Classify drawing the sync list from the listing instead of the disk
Classify_SyncsListing ==
    /\ pc = "classify"
    /\ projectsToCreate' = SelectSeq(diskProjects, NeedsCreate)
    /\ projectsToSync' =
          SelectSeq([k \in DOMAIN arcaneProjects |-> arcaneProjects[k].Name],
                    NeedsSync)
    /\ IF Len(projectsToCreate') = 0 /\ Len(projectsToSync') = 0
       THEN /\ pc' = "done" /\ idx' = 0
            /\ report' = "All projects are in sync, no changes needed"
       ELSE /\ IF Len(projectsToCreate') > 0
               THEN pc' = "create_read" /\ idx' = 1
               ELSE pc' = "sync_read" /\ idx' = 1
            /\ report' = report
    /\ UNCHANGED <<gitVars, run, start, all, resp, err, peer, config,
                   upstreamTree>>
    /\ UNCHANGED <<tree, remote, diskProjects, arcaneProjects,
                   arcaneProjectsByName, changedProjects, projectID, apiLog,
                   warnLog>>

\* Classify building the create list from the last disk project to the first
Classify_ReversesCreateList ==
    /\ pc = "classify"
    /\ projectsToCreate' =
          LET missing == SelectSeq(diskProjects, NeedsCreate)
          IN  [i \in 1..Len(missing) |-> missing[Len(missing) + 1 - i]]
    /\ projectsToSync' = SelectSeq(diskProjects, NeedsSync)
    /\ IF Len(projectsToCreate') = 0 /\ Len(projectsToSync') = 0
       THEN /\ pc' = "done" /\ idx' = 0
            /\ report' = "All projects are in sync, no changes needed"
       ELSE /\ IF Len(projectsToCreate') > 0
               THEN pc' = "create_read" /\ idx' = 1
               ELSE pc' = "sync_read" /\ idx' = 1
            /\ report' = report
    /\ UNCHANGED <<gitVars, run, start, all, resp, err, peer, config,
                   upstreamTree>>
    /\ UNCHANGED <<tree, remote, diskProjects, arcaneProjects,
                   arcaneProjectsByName, changedProjects, projectID, apiLog,
                   warnLog>>

\* lines 484-502
Classify ==
    /\ pc = "classify"
    /\ projectsToCreate' = SelectSeq(diskProjects, NeedsCreate)
    /\ projectsToSync' = SelectSeq(diskProjects, NeedsSync)
    /\ IF Len(projectsToCreate') = 0 /\ Len(projectsToSync') = 0
       THEN /\ pc' = "done" /\ idx' = 0
            /\ report' = "All projects are in sync, no changes needed"
       ELSE /\ IF Len(projectsToCreate') > 0
               THEN pc' = "create_read" /\ idx' = 1
               ELSE pc' = "sync_read" /\ idx' = 1
            /\ report' = report
    /\ UNCHANGED <<gitVars, run, start, all, resp, err, peer, config,
                   upstreamTree>>
    /\ UNCHANGED <<tree, remote, diskProjects, arcaneProjects,
                   arcaneProjectsByName, changedProjects, projectID, apiLog,
                   warnLog>>

\* lines 504-523: os.ReadFile of the manifest may fail (logError, continue)
CreateRead ==
    /\ pc = "create_read"
    /\ \E readOk \in BOOLEAN :
          IF readOk
          THEN /\ pc' = "create_guard" /\ idx' = idx
               /\ warnLog' = warnLog
          ELSE /\ pc' = AfterCreate(idx)[1] /\ idx' = AfterCreate(idx)[2]
               /\ warnLog' = Append(warnLog,
                     Warning("unreadable", projectsToCreate[idx], <<>>))
    /\ report' = Reported(pc')
    /\ UNCHANGED <<gitVars, run, start, all, resp, err, peer, config,
                   upstreamTree>>
    /\ UNCHANGED <<tree, remote, diskProjects, arcaneProjects,
                   arcaneProjectsByName, changedProjects, projectsToCreate,
                   projectsToSync, projectID, apiLog>>

\* CreateGuard skipping the project when the lookup itself fails
CreateGuard_SkipsOnLookupError ==
    /\ pc = "create_guard"
    /\ LET projectName == projectsToCreate[idx]
           existing == FindProjectsByNameExact(projectName)
       IN  \E ok \in BOOLEAN :
              /\ apiLog' = Append(apiLog, ApiCall("find", projectName, "", ok))
              /\ IF ok /\ Len(existing) > 0
                 THEN /\ warnLog' = Append(warnLog,
                              Warning("exists", projectName, existing))
                      /\ arcaneProjectsByName' =
                            [arcaneProjectsByName EXCEPT ![projectName] = existing]
                      /\ pc' = AfterCreate(idx)[1]
                      /\ idx' = AfterCreate(idx)[2]
                 ELSE /\ IF ok
                         THEN /\ pc' = "create_call"
                              /\ idx' = idx
                              /\ warnLog' = warnLog
                         ELSE /\ pc' = AfterCreate(idx)[1]
                              /\ idx' = AfterCreate(idx)[2]
                              /\ warnLog' = Append(warnLog,
                                    Warning("unverified", projectName, <<>>))
                      /\ UNCHANGED arcaneProjectsByName
    /\ report' = Reported(pc')
    /\ UNCHANGED <<gitVars, run, start, all, resp, err, peer, config,
                   upstreamTree>>
    /\ UNCHANGED <<tree, remote, diskProjects, arcaneProjects, changedProjects,
                   projectsToCreate, projectsToSync, projectID>>

\* CreateGuard queueing an adopted project of the change-set for the sync loop
CreateGuard_QueuesAdoptedForSync ==
    /\ pc = "create_guard"
    /\ LET projectName == projectsToCreate[idx]
           existing == FindProjectsByNameExact(projectName)
       IN  \E ok \in BOOLEAN :
              /\ apiLog' = Append(apiLog, ApiCall("find", projectName, "", ok))
              /\ IF ok /\ Len(existing) > 0
                 THEN /\ warnLog' = Append(warnLog,
                              Warning("exists", projectName, existing))
                      /\ arcaneProjectsByName' =
                            [arcaneProjectsByName EXCEPT ![projectName] = existing]
                      /\ projectsToSync' =
                            IF projectName \in changedProjects
                            THEN Append(projectsToSync, projectName)
                            ELSE projectsToSync
                      /\ IF idx < Len(projectsToCreate)
                         THEN pc' = "create_read" /\ idx' = idx + 1
                         ELSE IF Len(projectsToSync') > 0
                              THEN pc' = "sync_read" /\ idx' = 1
                              ELSE pc' = "done" /\ idx' = 0
                 ELSE /\ pc' = "create_call"
                      /\ projectsToSync' = projectsToSync
                      /\ warnLog' =
                            IF ok THEN warnLog
                            ELSE Append(warnLog,
                                    Warning("unverified", projectName, <<>>))
                      /\ UNCHANGED <<arcaneProjectsByName, idx>>
    /\ report' = Reported(pc')
    /\ UNCHANGED <<gitVars, run, start, all, resp, err, peer, config,
                   upstreamTree>>
    /\ UNCHANGED <<tree, remote, diskProjects, arcaneProjects, changedProjects,
                   projectsToCreate, projectID>>

\* lines 525-537
CreateGuard ==
    /\ pc = "create_guard"
    /\ LET projectName == projectsToCreate[idx]
           existing == FindProjectsByNameExact(projectName)
       IN  \E ok \in BOOLEAN :
              /\ apiLog' = Append(apiLog, ApiCall("find", projectName, "", ok))
              /\ IF ok /\ Len(existing) > 0
                 THEN /\ warnLog' = Append(warnLog,
                              Warning("exists", projectName, existing))
                      /\ arcaneProjectsByName' =
                            [arcaneProjectsByName EXCEPT ![projectName] = existing]
                      /\ pc' = AfterCreate(idx)[1]
                      /\ idx' = AfterCreate(idx)[2]
                 ELSE /\ pc' = "create_call"
                      /\ warnLog' =
                            IF ok THEN warnLog
                            ELSE Append(warnLog,
                                    Warning("unverified", projectName, <<>>))
                      /\ UNCHANGED <<arcaneProjectsByName, idx>>
    /\ report' = Reported(pc')
    /\ UNCHANGED <<gitVars, run, start, all, resp, err, peer, config,
                   upstreamTree>>
    /\ UNCHANGED <<tree, remote, diskProjects, arcaneProjects, changedProjects,
                   projectsToCreate, projectsToSync, projectID>>

\* CreateCall ending the process when the create call fails
CreateCall_ExitsOnFailure ==
    /\ pc = "create_call"
    /\ LET projectName == projectsToCreate[idx]
       IN  \E ok \in BOOLEAN :
              IF ok
              THEN /\ \E withId \in BOOLEAN :
                         projectID' = IF withId THEN NewId(projectName)
                                      ELSE projectName
                   /\ remote' = Append(remote,
                         ArcaneProject(NewId(projectName), projectName, "",
                                       "2024-05-03T08:00:00Z"))
                   /\ apiLog' = Append(apiLog,
                         ApiCall("create", projectName, projectID', TRUE))
                   /\ pc' = "create_start"
              ELSE /\ apiLog' = Append(apiLog,
                         ApiCall("create", projectName, "", FALSE))
                   /\ pc' = "exit1"
                   /\ UNCHANGED <<projectID, remote>>
    /\ UNCHANGED <<gitVars, report, run, start, all, resp, err, peer, config,
                   upstreamTree>>
    /\ UNCHANGED <<tree, diskProjects, arcaneProjects, arcaneProjectsByName,
                   changedProjects, projectsToCreate, projectsToSync, idx,
                   warnLog>>

\* arcane.CreateProject, lines 539-545 and 220-245: the response carries the
\* new ID (withId) or the name is used as the ID
CreateCall ==
    /\ pc = "create_call"
    /\ LET projectName == projectsToCreate[idx]
       IN  \E ok \in BOOLEAN :
              IF ok
              THEN /\ \E withId \in BOOLEAN :
                         projectID' = IF withId THEN NewId(projectName)
                                      ELSE projectName
                   /\ remote' = Append(remote,
                         ArcaneProject(NewId(projectName), projectName, "",
                                       "2024-05-03T08:00:00Z"))
                   /\ apiLog' = Append(apiLog,
                         ApiRequest("create", projectName, projectID', TRUE,
                                    CreateBody(projectName,
                                               ReadManifest(tree, projectName),
                                               ReadEnv(tree, projectName))))
                   /\ pc' = "create_start"
                   /\ idx' = idx
              ELSE /\ apiLog' = Append(apiLog,
                         ApiRequest("create", projectName, "", FALSE,
                                    CreateBody(projectName,
                                               ReadManifest(tree, projectName),
                                               ReadEnv(tree, projectName))))
                   /\ pc' = AfterCreate(idx)[1]
                   /\ idx' = AfterCreate(idx)[2]
                   /\ UNCHANGED <<projectID, remote>>
    /\ report' = Reported(pc')
    /\ UNCHANGED <<gitVars, run, start, all, resp, err, peer, config,
                   upstreamTree>>
    /\ UNCHANGED <<tree, diskProjects, arcaneProjects, arcaneProjectsByName,
                   changedProjects, projectsToCreate, projectsToSync, warnLog>>

\* line 562
Created(projectName) ==
    [arcaneProjectsByName EXCEPT
        ![projectName] = <<ArcaneProject(projectID, projectName, "", "")>>]

\* CreateStart without the redeploy fallback of lines 551-556
CreateStart_NoFallback ==
    /\ pc = "create_start"
    /\ LET projectName == projectsToCreate[idx]
       IN  \E ok \in BOOLEAN :
              /\ apiLog' = Append(apiLog,
                    ApiCall("start", projectName, projectID, ok))
              /\ arcaneProjectsByName' = Created(projectName)
              /\ pc' = AfterCreate(idx)[1]
              /\ idx' = AfterCreate(idx)[2]
    /\ report' = Reported(pc')
    /\ UNCHANGED <<gitVars, run, start, all, resp, err, peer, config,
                   upstreamTree>>
    /\ UNCHANGED <<tree, remote, diskProjects, arcaneProjects, changedProjects,
                   projectsToCreate, projectsToSync, projectID, warnLog>>

\* CreateStart going on to the redeploy whether or not the start failed
CreateStart_AlwaysRedeploy ==
    /\ pc = "create_start"
    /\ LET projectName == projectsToCreate[idx]
       IN  \E ok \in BOOLEAN :
              apiLog' = Append(apiLog,
                 ApiCall("start", projectName, projectID, ok))
    /\ pc' = "create_redeploy"
    /\ UNCHANGED <<gitVars, report, run, start, all, resp, err, peer, config,
                   upstreamTree>>
    /\ UNCHANGED <<tree, remote, diskProjects, arcaneProjects,
                   arcaneProjectsByName, changedProjects, projectsToCreate,
                   projectsToSync, idx, projectID, warnLog>>

\* arcane.StartProject, lines 547-550 and 557-562
CreateStart ==
    /\ pc = "create_start"
    /\ LET projectName == projectsToCreate[idx]
       IN  \E ok \in BOOLEAN :
              /\ apiLog' = Append(apiLog,
                    ApiCall("start", projectName, projectID, ok))
              /\ IF ok
                 THEN /\ arcaneProjectsByName' = Created(projectName)
                      /\ pc' = AfterCreate(idx)[1]
                      /\ idx' = AfterCreate(idx)[2]
                 ELSE /\ pc' = "create_redeploy"
                      /\ UNCHANGED <<arcaneProjectsByName, idx>>
    /\ report' = Reported(pc')
    /\ UNCHANGED <<gitVars, run, start, all, resp, err, peer, config,
                   upstreamTree>>
    /\ UNCHANGED <<tree, remote, diskProjects, arcaneProjects, changedProjects,
                   projectsToCreate, projectsToSync, projectID, warnLog>>

\* arcane.RedeployProject as the fallback, lines 551-556 and 562
CreateRedeploy ==
    /\ pc = "create_redeploy"
    /\ LET projectName == projectsToCreate[idx]
       IN  \E ok \in BOOLEAN :
              /\ apiLog' = Append(apiLog,
                    ApiCall("redeploy", projectName, projectID, ok))
              /\ arcaneProjectsByName' = Created(projectName)
    /\ pc' = AfterCreate(idx)[1]
    /\ idx' = AfterCreate(idx)[2]
    /\ report' = Reported(pc')
    /\ UNCHANGED <<gitVars, run, start, all, resp, err, peer, config,
                   upstreamTree>>
    /\ UNCHANGED <<tree, remote, diskProjects, arcaneProjects, changedProjects,
                   projectsToCreate, projectsToSync, projectID, warnLog>>

\* lines 570-575
TargetID(projectName) ==
    IF Len(arcaneProjectsByName[projectName]) > 0
    THEN selectPreferredProjectID(arcaneProjectsByName[projectName])
    ELSE projectName

\* lines 569-596: the target ID, then os.ReadFile of the manifest, which may
\* fail (logError, continue)
SyncRead ==
    /\ pc = "sync_read"
    /\ projectID' = TargetID(projectsToSync[idx])
    /\ \E readOk \in BOOLEAN :
          IF readOk
          THEN /\ pc' = "sync_update" /\ idx' = idx
               /\ warnLog' = warnLog
          ELSE /\ pc' = AfterSync(idx)[1] /\ idx' = AfterSync(idx)[2]
               /\ warnLog' = Append(warnLog,
                     Warning("unreadable", projectsToSync[idx], <<>>))
    /\ report' = Reported(pc')
    /\ UNCHANGED <<gitVars, run, start, all, resp, err, peer, config,
                   upstreamTree>>
    /\ UNCHANGED <<tree, remote, diskProjects, arcaneProjects,
                   arcaneProjectsByName, changedProjects, projectsToCreate,
                   projectsToSync, apiLog>>

\* SyncUpdate leaving the project when the update fails
SyncUpdate_StopsOnFailure ==
    /\ pc = "sync_update"
    /\ \E ok \in BOOLEAN :
          /\ apiLog' = Append(apiLog,
                ApiCall("update", projectsToSync[idx], projectID, ok))
          /\ IF ok
             THEN pc' = "sync_redeploy" /\ idx' = idx
             ELSE pc' = AfterSync(idx)[1] /\ idx' = AfterSync(idx)[2]
    /\ report' = Reported(pc')
    /\ UNCHANGED <<gitVars, run, start, all, resp, err, peer, config,
                   upstreamTree>>
    /\ UNCHANGED <<tree, remote, diskProjects, arcaneProjects,
                   arcaneProjectsByName, changedProjects, projectsToCreate,
                   projectsToSync, projectID, warnLog>>

\* arcane.UpdateProject, lines 598-602: a failure is a warning
SyncUpdate ==
    /\ pc = "sync_update"
    /\ \E ok \in BOOLEAN :
          apiLog' = Append(apiLog,
             ApiRequest("update", projectsToSync[idx], projectID, ok,
                        UpdateBody(ReadManifest(tree, projectsToSync[idx]),
                                   ReadEnv(tree, projectsToSync[idx]))))
    /\ pc' = "sync_redeploy"
    /\ UNCHANGED <<gitVars, report, run, start, all, resp, err, peer, config,
                   upstreamTree>>
    /\ UNCHANGED <<tree, remote, diskProjects, arcaneProjects,
                   arcaneProjectsByName, changedProjects, projectsToCreate,
                   projectsToSync, idx, projectID, warnLog>>

\* SyncRedeploy sending the redeploy again when it failed
SyncRedeploy_RetriesOnFailure ==
    /\ pc = "sync_redeploy"
    /\ \E ok \in BOOLEAN :
          /\ apiLog' = Append(apiLog,
                ApiCall("redeploy", projectsToSync[idx], projectID, ok))
          /\ pc' = IF ok THEN AfterSync(idx)[1] ELSE "sync_redeploy"
          /\ idx' = IF ok THEN AfterSync(idx)[2] ELSE idx
    /\ report' = Reported(pc')
    /\ UNCHANGED <<gitVars, run, start, all, resp, err, peer, config,
                   upstreamTree>>
    /\ UNCHANGED <<tree, remote, diskProjects, arcaneProjects,
                   arcaneProjectsByName, changedProjects, projectsToCreate,
                   projectsToSync, projectID, warnLog>>

\* arcane.RedeployProject, lines 604-610
SyncRedeploy ==
    /\ pc = "sync_redeploy"
    /\ \E ok \in BOOLEAN :
          apiLog' = Append(apiLog,
             ApiCall("redeploy", projectsToSync[idx], projectID, ok))
    /\ pc' = AfterSync(idx)[1]
    /\ idx' = AfterSync(idx)[2]
    /\ report' = Reported(pc')
    /\ UNCHANGED <<gitVars, run, start, all, resp, err, peer, config,
                   upstreamTree>>
    /\ UNCHANGED <<tree, remote, diskProjects, arcaneProjects,
                   arcaneProjectsByName, changedProjects, projectsToCreate,
                   projectsToSync, projectID, warnLog>>

Reconcile ==
    \/ ListDisk \/ ListArcane \/ Detect \/ Classify
    \/ CreateRead \/ CreateGuard \/ CreateCall \/ CreateStart \/ CreateRedeploy
    \/ SyncRead \/ SyncUpdate \/ SyncRedeploy

Next == Synchronize \/ Reconcile

Spec == Init /\ [][Next]_vars

(***************************************************************************)
(* The duplicate tie-break on its own: lines 570-575 applied to every      *)
(* candidate list of up to MaxCandidates entries named app, over every     *)
(* combination of the timestamp strings.                                   *)
(***************************************************************************)
StampStrings == {"", "not-a-date", "2024-05-01T10:00:00Z",
                 "2024-05-02T10:00:00.25Z", " 2024-05-03T08:00:00Z "}

CandidatePool ==
    UNION {{[i \in 1..n |-> ArcaneProject(ServerIds[i], "app", f[i][1], f[i][2])] :
              f \in [1..n -> StampStrings \X StampStrings]} :
           n \in 1..MaxCandidates}

InitSelect ==
    /\ pc = "select"
    /\ head = Base /\ upstream = Base /\ originTip = Base
    /\ trackedDirty = FALSE
    /\ untracked = {}
    /\ status = NoStatus
    /\ oldCommit = Base
    /\ changesOccurred = FALSE
    /\ gitLog = <<>>
    /\ tree = TreeWith({"notes.md"})
    /\ \E candidates \in CandidatePool :
          /\ remote = candidates
          /\ arcaneProjects = candidates
          /\ arcaneProjectsByName = IndexByName(candidates)
    /\ diskProjects = <<"app">>
    /\ changedProjects = {"app"}
    /\ projectsToCreate = <<>>
    /\ projectsToSync = <<"app">>
    /\ idx = 1
    /\ projectID = ""
    /\ apiLog = <<>>
    /\ warnLog = <<>>
    /\ report = ""
    /\ run = 1
    /\ start = 0
    /\ all = <<>>
    /\ resp = NoResponse
    /\ err = NoError
    /\ peer = NoPeer
    /\ config = FullConfig
    /\ upstreamTree = tree

SelectTarget ==
    /\ pc = "select"
    /\ projectID' = TargetID(projectsToSync[idx])
    /\ pc' = "selected"
    /\ UNCHANGED <<gitVars, report, run, start, all, resp, err, peer, config,
                   upstreamTree>>
    /\ UNCHANGED <<tree, remote, diskProjects, arcaneProjects,
                   arcaneProjectsByName, changedProjects, projectsToCreate,
                   projectsToSync, idx, apiLog, warnLog>>

SpecSelect == InitSelect /\ [][SelectTarget]_vars

(***************************************************************************)
(* The page loop of listProjectsAll on its own, with search = "".  The     *)
(* server holds up to MaxProjects projects, numbered in listing order, and *)
(* answers a request for (start, limit) with the projects start+1 ..       *)
(* start+limit it holds; the pagination block of the answer reports the    *)
(* number of projects as grandTotalItems or as totalItems, reports         *)
(* nothing, or reports a grandTotalItems of one page.  Each request may    *)
(* fail.                                                                   *)
(***************************************************************************)
pageSize == 50

Min(a, b) == IF a <= b THEN a ELSE b

\* Data of the answer to the request for the page at offset `offset`
PageAt(offset) ==
    SubSeq(remote, offset + 1, Min(Len(remote), offset + pageSize))

\* Pagination blocks the server may send
Paginations ==
    {[GrandTotalItems |-> 0, TotalItems |-> 0],
     [GrandTotalItems |-> Len(remote), TotalItems |-> 0],
     [GrandTotalItems |-> 0, TotalItems |-> Len(remote)],
     [GrandTotalItems |-> pageSize, TotalItems |-> Len(remote)]}

\* total of lines 204-209
ReportedTotal(pagination) ==
    IF pagination.GrandTotalItems > 0 THEN pagination.GrandTotalItems
    ELSE IF pagination.TotalItems > 0 THEN pagination.TotalItems
    ELSE 0

\* The GET request for a page with the total its answer reported
PageRequest(offset, ok, total) ==
    ApiRequest("list", "", "", ok,
               {<<"start", offset>>, <<"limit", pageSize>>,
                <<"total", total>>})

InitPages ==
    /\ pc = "page"
    /\ \E n \in 0..MaxProjects :
          remote = [k \in 1..n |-> ArcaneProject(k, "app", "", "")]
    /\ tree = TreeWith({"notes.md"})
    /\ head = Base /\ upstream = Base /\ originTip = Base
    /\ trackedDirty = FALSE
    /\ untracked = {}
    /\ status = NoStatus
    /\ oldCommit = Base
    /\ changesOccurred = FALSE
    /\ gitLog = <<>>
    /\ diskProjects = <<>>
    /\ arcaneProjects = <<>>
    /\ arcaneProjectsByName = IndexByName(<<>>)
    /\ changedProjects = {}
    /\ projectsToCreate = <<>>
    /\ projectsToSync = <<>>
    /\ idx = 0
    /\ projectID = ""
    /\ apiLog = <<>>
    /\ warnLog = <<>>
    /\ report = ""
    /\ run = 1
    /\ start = 0
    /\ all = <<>>
    /\ resp = NoResponse
    /\ err = NoError
    /\ peer = NoPeer
    /\ config = FullConfig
    /\ upstreamTree = tree

\* FetchPage returning the pages received so far when a request fails
FetchPage_KeepsPartial ==
    /\ pc = "page"
    /\ \E ok \in BOOLEAN, pagination \in Paginations :
          LET total == ReportedTotal(pagination)
          IN  /\ apiLog' = Append(apiLog,
                    PageRequest(start, ok, IF ok THEN total ELSE 0))
              /\ IF ~ok
                 THEN /\ all' = all
                      /\ arcaneProjects' = all
                      /\ pc' = "list_failed"
                      /\ start' = start
                 ELSE /\ all' = all \o PageAt(start)
                      /\ IF \/ Len(PageAt(start)) < pageSize
                            \/ total > 0 /\ Len(all') >= total
                         THEN /\ arcaneProjects' = all'
                              /\ pc' = "listed"
                              /\ start' = start
                         ELSE /\ arcaneProjects' = arcaneProjects
                              /\ pc' = "page"
                              /\ start' = start + pageSize
    /\ UNCHANGED <<gitVars, report, run, resp, err, peer, config, upstreamTree>>
    /\ UNCHANGED <<tree, remote, diskProjects, arcaneProjectsByName,
                   changedProjects, projectsToCreate, projectsToSync, idx,
                   projectID, warnLog>>

\* One turn of the loop of lines 173-215; the caller's arcaneProjects gets
\* the result when the function returns (nil with the error)
FetchPage ==
    /\ pc = "page"
    /\ \E ok \in BOOLEAN, pagination \in Paginations :
          LET total == ReportedTotal(pagination)
          IN  /\ apiLog' = Append(apiLog,
                    PageRequest(start, ok, IF ok THEN total ELSE 0))
              /\ IF ~ok
                 THEN /\ all' = <<>>
                      /\ arcaneProjects' = <<>>
                      /\ pc' = "list_failed"
                      /\ start' = start
                 ELSE /\ all' = all \o PageAt(start)
                      /\ IF \/ Len(PageAt(start)) < pageSize
                            \/ total > 0 /\ Len(all') >= total
                         THEN /\ arcaneProjects' = all'
                              /\ pc' = "listed"
                              /\ start' = start
                         ELSE /\ arcaneProjects' = arcaneProjects
                              /\ pc' = "page"
                              /\ start' = start + pageSize
    /\ UNCHANGED <<gitVars, report, run, resp, err, peer, config, upstreamTree>>
    /\ UNCHANGED <<tree, remote, diskProjects, arcaneProjectsByName,
                   changedProjects, projectsToCreate, projectsToSync, idx,
                   projectID, warnLog>>

SpecPages == InitPages /\ [][FetchPage]_vars

(***************************************************************************)
(* The page loop against the server that repeats its first page.  Each     *)
(* request returns, so the loop takes its next turn whenever it has one to *)
(* take.                                                                   *)
(***************************************************************************)
MaxRequests == 4

\* One turn of the loop of lines 173-215 against a server that does not
\* honour the start parameter: whatever the offset asked for, it answers
\* with the first page of the projects it holds.  The turns are counted up
\* to MaxRequests.
FetchRepeatedPage ==
    /\ pc = "page"
    /\ Len(apiLog) < MaxRequests
    /\ \E ok \in BOOLEAN, pagination \in Paginations :
          LET total == ReportedTotal(pagination)
          IN  /\ apiLog' = Append(apiLog,
                    PageRequest(start, ok, IF ok THEN total ELSE 0))
              /\ IF ~ok
                 THEN /\ all' = <<>>
                      /\ arcaneProjects' = <<>>
                      /\ pc' = "list_failed"
                      /\ start' = start
                 ELSE /\ all' = all \o PageAt(0)
                      /\ IF \/ Len(PageAt(0)) < pageSize
                            \/ total > 0 /\ Len(all') >= total
                         THEN /\ arcaneProjects' = all'
                              /\ pc' = "listed"
                              /\ start' = start
                         ELSE /\ arcaneProjects' = arcaneProjects
                              /\ pc' = "page"
                              /\ start' = start + pageSize
    /\ UNCHANGED <<gitVars, report, run, resp, err, peer, config, upstreamTree>>
    /\ UNCHANGED <<tree, remote, diskProjects, arcaneProjectsByName,
                   changedProjects, projectsToCreate, projectsToSync, idx,
                   projectID, warnLog>>

SpecRepeat ==
    InitPages /\ [][FetchRepeatedPage]_vars /\ WF_vars(FetchRepeatedPage)

(***************************************************************************)
(* The untracked-file cleanup on its own: main stands before the git clean *)
(* of the diverged branch (fetch and reset done) or of the behind-only     *)
(* branch with local changes (reset of HEAD done), with any set of         *)
(* untracked paths in the working tree.                                    *)
(***************************************************************************)
InitClean ==
    /\ untracked \in SUBSET CleanFiles
    /\ \/ /\ pc = "div_clean"
          /\ status = [Ahead |-> 1, Behind |-> 1, HasLocalChange |-> TRUE]
          /\ head = Tip("R", 1)
          /\ oldCommit = Tip("L", 1)
          /\ gitLog = <<GitCmd("fetch", "origin", TRUE),
                        GitCmd("fetch", "origin branch", TRUE),
                        GitCmd("reset", "origin/branch", TRUE)>>
       \/ /\ pc = "behind_clean"
          /\ status = [Ahead |-> 0, Behind |-> 1, HasLocalChange |-> TRUE]
          /\ head = Base
          /\ oldCommit = Base
          /\ gitLog = <<GitCmd("fetch", "origin", TRUE),
                        GitCmd("reset", "HEAD", TRUE)>>
    /\ upstream = Tip("R", 1) /\ originTip = Tip("R", 1)
    /\ trackedDirty = FALSE
    /\ changesOccurred = FALSE
    /\ tree = TreeWith({"notes.md"})
    /\ remote = <<>>
    /\ diskProjects = <<>>
    /\ arcaneProjects = <<>>
    /\ arcaneProjectsByName = IndexByName(<<>>)
    /\ changedProjects = {}
    /\ projectsToCreate = <<>>
    /\ projectsToSync = <<>>
    /\ idx = 0
    /\ projectID = ""
    /\ apiLog = <<>>
    /\ warnLog = <<>>
    /\ report = ""
    /\ run = 1
    /\ start = 0
    /\ all = <<>>
    /\ resp = NoResponse
    /\ err = NoError
    /\ peer = NoPeer
    /\ config = FullConfig
    /\ upstreamTree = tree

NextClean == DivergedClean \/ BehindClean

SpecClean == InitClean /\ [][NextClean]_vars

(***************************************************************************)
(* One request of the API client on its own: doRequest and the five client *)
(* methods that call it.  The answer in flight is drawn from status codes  *)
(* of every class the HTTP client hands back (it follows redirects that    *)
(* carry a Location header and swallows 1xx answers other than 101) and    *)
(* from bodies that do and do not parse as JSON.                           *)
(***************************************************************************)
StatusCodes == {101, 200, 201, 204, 300, 304, 399, 400, 401, 404, 500, 503}

ResponseBodies == {"", "{}", "<html>"}

Responses ==
    {NoResponse} \cup [StatusCode : StatusCodes, Body : ResponseBodies]

RequestOps == {"list", "create", "update", "start", "redeploy"}

\* json.Unmarshal of the body into a struct returns nil
ParsesAsJson(body) == body = "{}"

\* fmt.Errorf("API error (status %d): %s", resp.StatusCode, respBody)
ApiError(r) ==
    [kind |-> "API error", status |-> r.StatusCode, body |-> r.Body]

\* The error of doRequest for the answer r
doRequest(r) ==
    IF r = NoResponse
    THEN [kind |-> "request failed", status |-> 0, body |-> ""]
    ELSE IF r.StatusCode >= 400 THEN ApiError(r) ELSE NoError

\* The error of the client method for `op` when doRequest got the answer r:
\* listProjectsAll and CreateProject parse the body, UpdateProject,
\* StartProject and RedeployProject return doRequest's error as it is
ClientError(op, r) ==
    IF doRequest(r) # NoError THEN doRequest(r)
    ELSE IF op \in {"list", "create"} /\ ~ParsesAsJson(r.Body)
    THEN [kind |-> "failed to parse response", status |-> 0, body |-> r.Body]
    ELSE NoError

InitRequest ==
    /\ pc = "request"
    /\ resp \in Responses
    /\ err = NoError
    /\ peer = NoPeer
    /\ config = FullConfig
    /\ remote = <<ArcaneProject("p1", "app", "", "")>>
    /\ tree = TreeWith({"notes.md"})
    /\ upstreamTree = tree
    /\ head = Base /\ upstream = Base /\ originTip = Base
    /\ trackedDirty = FALSE
    /\ untracked = {}
    /\ status = NoStatus
    /\ oldCommit = Base
    /\ changesOccurred = FALSE
    /\ gitLog = <<>>
    /\ diskProjects = <<>>
    /\ arcaneProjects = <<>>
    /\ arcaneProjectsByName = IndexByName(<<>>)
    /\ changedProjects = {}
    /\ projectsToCreate = <<>>
    /\ projectsToSync = <<>>
    /\ idx = 0
    /\ projectID = ""
    /\ apiLog = <<>>
    /\ warnLog = <<>>
    /\ report = ""
    /\ run = 1
    /\ start = 0
    /\ all = <<>>

\* A client method called by main: the call counts as successful exactly
\* when the method returns the nil error
Request ==
    /\ pc = "request"
    /\ \E op \in RequestOps :
          /\ err' = ClientError(op, resp)
          /\ apiLog' = Append(apiLog,
                ApiCall(op, "app", IF op \in {"list", "create"} THEN "" ELSE "p1",
                        ClientError(op, resp) = NoError))
    /\ pc' = "responded"
    /\ UNCHANGED <<gitVars, report, run, start, all, resp, peer, config,
                   upstreamTree>>
    /\ UNCHANGED <<tree, remote, diskProjects, arcaneProjects,
                   arcaneProjectsByName, changedProjects, projectsToCreate,
                   projectsToSync, idx, projectID, warnLog>>

SpecRequest == InitRequest /\ [][Request]_vars

(***************************************************************************)
(* The disk scanner on its own: listDiskProjects applied to every root     *)
(* whose five entries are each a plain file or a directory holding one of  *)
(* EntryContents.                                                          *)
(***************************************************************************)
\* What a directory of the root may hold: nothing, a manifest, a
\* lower-priority manifest next to another file, a file that is no
\* manifest, or a subdirectory b with a manifest of its own inside
EntryContents == {{}, {"compose.yaml"}, {"docker-compose.yml", "notes.md"},
                  {"notes.md"}, {"b"}}

ScanPool ==
    [{RootEntries[i] : i \in DOMAIN RootEntries}
        -> {File} \cup {Dir(c) : c \in EntryContents}]

InitScan ==
    /\ pc = "scan"
    /\ tree \in ScanPool
    /\ head = Base /\ upstream = Base /\ originTip = Base
    /\ trackedDirty = FALSE
    /\ untracked = {}
    /\ status = NoStatus
    /\ oldCommit = Base
    /\ changesOccurred = FALSE
    /\ gitLog = <<>>
    /\ remote = <<>>
    /\ diskProjects = <<>>
    /\ arcaneProjects = <<>>
    /\ arcaneProjectsByName = IndexByName(<<>>)
    /\ changedProjects = {}
    /\ projectsToCreate = <<>>
    /\ projectsToSync = <<>>
    /\ idx = 0
    /\ projectID = ""
    /\ apiLog = <<>>
    /\ warnLog = <<>>
    /\ report = ""
    /\ run = 1
    /\ start = 0
    /\ all = <<>>
    /\ resp = NoResponse
    /\ err = NoError
    /\ peer = NoPeer
    /\ config = FullConfig
    /\ upstreamTree = tree

\* line 434 with lines 617-644, when os.ReadDir succeeds
ScanOnly ==
    /\ pc = "scan"
    /\ diskProjects' = listDiskProjects(tree)
    /\ pc' = "scanned"
    /\ UNCHANGED <<gitVars, report, run, start, all, resp, err, peer, config,
                   upstreamTree>>
    /\ UNCHANGED <<tree, remote, arcaneProjects, arcaneProjectsByName,
                   changedProjects, projectsToCreate, projectsToSync, idx,
                   projectID, apiLog, warnLog>>

SpecScan == InitScan /\ [][ScanOnly]_vars

(***************************************************************************)
(* The change-set detector on its own: detectChangedProjects applied to    *)
(* every pair of revisions and every output of git diff --name-only over   *)
(* DetectPaths, the git diff succeeding or failing.  The git diff call and *)
(* its output are recorded in gitLog.                                      *)
(***************************************************************************)
\* compose.yaml at the repository root, two manifests and the .env of a,
\* a manifest two levels down, and a file that is no manifest
DetectPaths == {<<"compose.yaml">>,
                <<"a", "compose.yaml">>,
                <<"a", "docker-compose.yml">>,
                <<"a", ".env">>,
                <<"stacks", "b", "compose.yml">>,
                <<"unrelated", "readme.md">>}

InitDetect ==
    /\ pc = "detect"
    /\ \E o \in 0..MaxBehind, n \in 0..MaxBehind :
          /\ oldCommit = Tip("R", o)
          /\ head = Tip("R", n)
          /\ originTip = head /\ upstream = head
    /\ trackedDirty = FALSE
    /\ untracked = {}
    /\ status = NoStatus
    /\ changesOccurred = TRUE
    /\ gitLog = <<>>
    /\ tree = TreeWith({"notes.md"})
    /\ remote = <<>>
    /\ diskProjects = <<"app">>
    /\ arcaneProjects = <<>>
    /\ arcaneProjectsByName = IndexByName(<<>>)
    /\ changedProjects = {}
    /\ projectsToCreate = <<>>
    /\ projectsToSync = <<>>
    /\ idx = 0
    /\ projectID = ""
    /\ apiLog = <<>>
    /\ warnLog = <<>>
    /\ report = ""
    /\ run = 1
    /\ start = 0
    /\ all = <<>>
    /\ resp = NoResponse
    /\ err = NoError
    /\ peer = NoPeer
    /\ config = FullConfig
    /\ upstreamTree = tree

\* line 479 with lines 766-811: git diff is not run for equal revisions
DetectOnly ==
    /\ pc = "detect"
    /\ \E changedFiles \in SUBSET DetectPaths, diffOk \in BOOLEAN :
          /\ changedProjects' =
                detectChangedProjects(oldCommit, head, changedFiles, diffOk)
          /\ gitLog' = IF oldCommit = head THEN gitLog
                       ELSE Append(gitLog, GitCmd("diff", changedFiles, diffOk))
    /\ pc' = "detected"
    /\ UNCHANGED <<head, originTip, upstream, trackedDirty, untracked, status,
                   oldCommit, changesOccurred, tree, remote, diskProjects,
                   arcaneProjects, arcaneProjectsByName, projectsToCreate,
                   projectsToSync, idx, projectID, apiLog, warnLog, report,
                   run, start, all, resp, err, peer, config, upstreamTree>>

SpecDetect == InitDetect /\ [][DetectOnly]_vars

(***************************************************************************)
(* Successive passes: the systemd timer starts the program again after a   *)
(* pass has ended.  The new process starts from the checkout and the       *)
(* server as the pass before left them; nothing else touches the disk,     *)
(* the git remote or the server in between.  The server's request log      *)
(* apiLog runs on, the process's own variables and output start afresh.    *)
(***************************************************************************)
\* The repository holds the project app; the server holds nothing or app.
InitTwice ==
    /\ pc = "fetch"
    /\ InitGit
    /\ tree = TreeWith({"notes.md"})
    /\ remote \in {<<>>,
                   <<ArcaneProject("p1", "app", "2024-05-01T10:00:00Z", "")>>}
    /\ diskProjects = <<>>
    /\ arcaneProjects = <<>>
    /\ arcaneProjectsByName = IndexByName(<<>>)
    /\ changedProjects = {}
    /\ projectsToCreate = <<>>
    /\ projectsToSync = <<>>
    /\ idx = 0
    /\ projectID = ""
    /\ apiLog = <<>>
    /\ warnLog = <<>>
    /\ report = ""
    /\ run = 1
    /\ start = 0
    /\ all = <<>>
    /\ resp = NoResponse
    /\ err = NoError
    /\ peer = NoPeer
    /\ config = FullConfig
    /\ upstreamTree = tree

Rerun ==
    /\ pc \in {"done", "exit1"}
    /\ run < MaxRuns
    /\ run' = run + 1
    /\ pc' = "fetch"
    /\ status' = NoStatus
    /\ oldCommit' = Base
    /\ changesOccurred' = FALSE
    /\ gitLog' = <<>>
    /\ diskProjects' = <<>>
    /\ arcaneProjects' = <<>>
    /\ arcaneProjectsByName' = IndexByName(<<>>)
    /\ changedProjects' = {}
    /\ projectsToCreate' = <<>>
    /\ projectsToSync' = <<>>
    /\ idx' = 0
    /\ projectID' = ""
    /\ warnLog' = <<>>
    /\ report' = ""
    /\ UNCHANGED <<head, originTip, upstream, trackedDirty, untracked, tree,
                   remote, apiLog, start, all, resp, err, peer, config,
                   upstreamTree>>

NextTwice == Next \/ Rerun

SpecTwice == InitTwice /\ [][NextTwice]_vars

(***************************************************************************)
(* One pass over a repository whose projects app and web are both on disk, *)
(* against a server that already holds app, or app and web.                *)
(***************************************************************************)
InitHeld ==
    /\ pc = "fetch"
    /\ InitGit
    /\ tree = TreeWith({"docker-compose.yml", "compose.yml"})
    /\ remote \in
          {<<ArcaneProject("p1", "app", "2024-05-01T10:00:00Z", "")>>,
           <<ArcaneProject("p1", "app", "2024-05-01T10:00:00Z", ""),
             ArcaneProject("p2", "web", "2024-05-01T10:00:00Z", "")>>}
    /\ diskProjects = <<>>
    /\ arcaneProjects = <<>>
    /\ arcaneProjectsByName = IndexByName(<<>>)
    /\ changedProjects = {}
    /\ projectsToCreate = <<>>
    /\ projectsToSync = <<>>
    /\ idx = 0
    /\ projectID = ""
    /\ apiLog = <<>>
    /\ warnLog = <<>>
    /\ report = ""
    /\ run = 1
    /\ start = 0
    /\ all = <<>>
    /\ resp = NoResponse
    /\ err = NoError
    /\ peer = NoPeer
    /\ config = FullConfig
    /\ upstreamTree = tree

SpecHeld == InitHeld /\ [][Next]_vars

(***************************************************************************)
(* One pass over a repository whose only project app has a manifest and a  *)
(* .env file with content, an empty .env file or none, and an empty        *)
(* manifest or one with content, against a server that holds app or not.   *)
(***************************************************************************)
AppDirs ==
    {DirWith({"compose.yaml"}, {}),
     DirWith({"compose.yaml"}, {"compose.yaml"}),
     DirWith({"compose.yaml", ".env"}, {}),
     DirWith({"compose.yaml", ".env"}, {".env"}),
     DirWith({"compose.yaml", ".env"}, {"compose.yaml"}),
     DirWith({"compose.yaml", ".env"}, {"compose.yaml", ".env"})}

ContentTrees == {[TreeWith({"notes.md"}) EXCEPT !["app"] = d] : d \in AppDirs}

InitContent ==
    /\ pc = "fetch"
    /\ InitGit
    /\ tree \in ContentTrees
    /\ remote \in {<<>>,
                   <<ArcaneProject("p1", "app", "2024-05-01T10:00:00Z", "")>>}
    /\ diskProjects = <<>>
    /\ arcaneProjects = <<>>
    /\ arcaneProjectsByName = IndexByName(<<>>)
    /\ changedProjects = {}
    /\ projectsToCreate = <<>>
    /\ projectsToSync = <<>>
    /\ idx = 0
    /\ projectID = ""
    /\ apiLog = <<>>
    /\ warnLog = <<>>
    /\ report = ""
    /\ run = 1
    /\ start = 0
    /\ all = <<>>
    /\ resp = NoResponse
    /\ err = NoError
    /\ peer = NoPeer
    /\ config = FullConfig
    /\ upstreamTree = tree

SpecContent == InitContent /\ [][Next]_vars

(***************************************************************************)
(* Two invocations of the tool against the same server.  Nothing in main   *)
(* keeps a second process from running (there is no lock), so the create   *)
(* loop of a second invocation, peer, runs interleaved with the create     *)
(* loop of the first, request by request.  Both listed the server while it *)
(* was empty and have the disk project app to create.  The peer's requests *)
(* are logged with the number run + 1.                                     *)
(***************************************************************************)
\* ID the server gives the project the peer creates
PeerNewId(name) == IF name = "app" THEN "new-app-2" ELSE "new-web-2"

\* A request of the peer
PeerRequest(op, name, id, ok, body) ==
    [ApiRequest(op, name, id, ok, body) EXCEPT !.run = run + 1]

InitRace ==
    /\ run = 1
    /\ pc = "create_read"
    /\ peer = [pc |-> "create_guard", name |-> "app", projectID |-> ""]
    /\ head = Base /\ upstream = Base /\ originTip = Base
    /\ trackedDirty = FALSE
    /\ untracked = {}
    /\ status = NoStatus
    /\ oldCommit = Base
    /\ changesOccurred = FALSE
    /\ gitLog = <<GitCmd("fetch", "origin", TRUE)>>
    /\ tree = TreeWith({"notes.md"})
    /\ remote = <<>>
    /\ diskProjects = listDiskProjects(tree)
    /\ arcaneProjects = <<>>
    /\ arcaneProjectsByName = IndexByName(<<>>)
    /\ changedProjects = {}
    /\ projectsToCreate = diskProjects
    /\ projectsToSync = <<>>
    /\ idx = 1
    /\ projectID = ""
    /\ apiLog = <<ApiCall("list", "", "", TRUE),
                  PeerRequest("list", "", "", TRUE, {})>>
    /\ warnLog = <<>>
    /\ report = ""
    /\ start = 0
    /\ all = <<>>
    /\ resp = NoResponse
    /\ err = NoError
    /\ config = FullConfig
    /\ upstreamTree = tree

\* PeerGuard going on to the create without the lookup
PeerGuard_NoLookup ==
    /\ peer.pc = "create_guard"
    /\ peer' = [peer EXCEPT !.pc = "create_call"]
    /\ UNCHANGED <<gitVars, engineVars, pc, remote, tree, run, start, all,
                   resp, err, config, upstreamTree>>

\* lines 525-537 in the peer
PeerGuard ==
    /\ peer.pc = "create_guard"
    /\ LET existing == FindProjectsByNameExact(peer.name)
       IN  \E ok \in BOOLEAN :
              /\ apiLog' = Append(apiLog,
                    PeerRequest("find", peer.name, "", ok, {}))
              /\ IF ok /\ Len(existing) > 0
                 THEN /\ warnLog' = Append(warnLog,
                              Warning("exists", peer.name, existing))
                      /\ peer' = [peer EXCEPT !.pc = "done"]
                 ELSE /\ peer' = [peer EXCEPT !.pc = "create_call"]
                      /\ warnLog' = warnLog
    /\ UNCHANGED <<gitVars, report, run, start, all, resp, err, config,
                   upstreamTree>>
    /\ UNCHANGED <<pc, tree, remote, diskProjects, arcaneProjects,
                   arcaneProjectsByName, changedProjects, projectsToCreate,
                   projectsToSync, idx, projectID>>

\* arcane.CreateProject, lines 539-545 and 220-245, in the peer
PeerCreateCall ==
    /\ peer.pc = "create_call"
    /\ \E ok \in BOOLEAN :
          IF ok
          THEN /\ \E withId \in BOOLEAN :
                     peer' = [peer EXCEPT
                                !.pc = "create_start",
                                !.projectID = IF withId
                                              THEN PeerNewId(peer.name)
                                              ELSE peer.name]
               /\ remote' = Append(remote,
                     ArcaneProject(PeerNewId(peer.name), peer.name, "",
                                   "2024-05-03T08:00:00Z"))
               /\ apiLog' = Append(apiLog,
                     PeerRequest("create", peer.name, peer'.projectID, TRUE,
                                 CreateBody(peer.name,
                                            ReadManifest(tree, peer.name),
                                            ReadEnv(tree, peer.name))))
          ELSE /\ peer' = [peer EXCEPT !.pc = "done"]
               /\ remote' = remote
               /\ apiLog' = Append(apiLog,
                     PeerRequest("create", peer.name, "", FALSE,
                                 CreateBody(peer.name,
                                            ReadManifest(tree, peer.name),
                                            ReadEnv(tree, peer.name))))
    /\ UNCHANGED <<gitVars, report, run, start, all, resp, err, config,
                   upstreamTree>>
    /\ UNCHANGED <<pc, tree, diskProjects, arcaneProjects,
                   arcaneProjectsByName, changedProjects, projectsToCreate,
                   projectsToSync, idx, projectID, warnLog>>

\* arcane.StartProject, lines 547-550 and 557-562, in the peer
PeerCreateStart ==
    /\ peer.pc = "create_start"
    /\ \E ok \in BOOLEAN :
          /\ apiLog' = Append(apiLog,
                PeerRequest("start", peer.name, peer.projectID, ok, {}))
          /\ peer' = [peer EXCEPT
                        !.pc = IF ok THEN "done" ELSE "create_redeploy"]
    /\ UNCHANGED <<gitVars, report, run, start, all, resp, err, config,
                   upstreamTree>>
    /\ UNCHANGED <<pc, tree, remote, diskProjects, arcaneProjects,
                   arcaneProjectsByName, changedProjects, projectsToCreate,
                   projectsToSync, idx, projectID, warnLog>>

\* arcane.RedeployProject as the fallback, lines 551-556, in the peer
PeerCreateRedeploy ==
    /\ peer.pc = "create_redeploy"
    /\ \E ok \in BOOLEAN :
          apiLog' = Append(apiLog,
             PeerRequest("redeploy", peer.name, peer.projectID, ok, {}))
    /\ peer' = [peer EXCEPT !.pc = "done"]
    /\ UNCHANGED <<gitVars, report, run, start, all, resp, err, config,
                   upstreamTree>>
    /\ UNCHANGED <<pc, tree, remote, diskProjects, arcaneProjects,
                   arcaneProjectsByName, changedProjects, projectsToCreate,
                   projectsToSync, idx, projectID, warnLog>>

NextRace ==
    \/ CreateRead \/ CreateGuard \/ CreateCall \/ CreateStart
    \/ CreateRedeploy
    \/ PeerGuard \/ PeerCreateCall \/ PeerCreateStart \/ PeerCreateRedeploy

SpecRace == InitRace /\ [][NextRace]_vars

(***************************************************************************)
(* main from its first line: the configuration is read from the            *)
(* environment, where each of the three required settings may be missing,  *)
(* validated, and the process changes to the repository directory; then    *)
(* the pass runs as in Spec, over a repository with the project app and a  *)
(* server that holds app or nothing.                                       *)
(***************************************************************************)
\* What os.Getenv may return for the three required settings
Configs ==
    [RepoPath : {"", FullConfig.RepoPath},
     ArcaneBaseURL : {"", FullConfig.ArcaneBaseURL},
     ArcaneAPIKey : {"", FullConfig.ArcaneAPIKey}]

\* RequiredMissing without the test of the API key
RequiredMissing_NoApiKey(c) == c.RepoPath = "" \/ c.ArcaneBaseURL = ""

\* One of the tests of lines 300-309 ends the process with log.Fatal
RequiredMissing(c) ==
    c.RepoPath = "" \/ c.ArcaneBaseURL = "" \/ c.ArcaneAPIKey = ""

InitConfig ==
    /\ pc = "config"
    /\ config \in Configs
    /\ upstreamTree = TreeWith({"notes.md"})
    /\ InitGit
    /\ tree = TreeWith({"notes.md"})
    /\ remote \in {<<>>,
                   <<ArcaneProject("p1", "app", "2024-05-01T10:00:00Z", "")>>}
    /\ diskProjects = <<>>
    /\ arcaneProjects = <<>>
    /\ arcaneProjectsByName = IndexByName(<<>>)
    /\ changedProjects = {}
    /\ projectsToCreate = <<>>
    /\ projectsToSync = <<>>
    /\ idx = 0
    /\ projectID = ""
    /\ apiLog = <<>>
    /\ warnLog = <<>>
    /\ report = ""
    /\ run = 1
    /\ start = 0
    /\ all = <<>>
    /\ resp = NoResponse
    /\ err = NoError
    /\ peer = NoPeer

\* lines 300-309
ValidateConfig ==
    /\ pc = "config"
    /\ pc' = IF RequiredMissing(config) THEN "exit1" ELSE "chdir"
    /\ UNCHANGED <<gitVars, engineVars, tree, remote, run, start, all, resp,
                   err, peer, config, upstreamTree>>

\* os.Chdir(config.RepoPath), lines 320-323
Chdir ==
    /\ pc = "chdir"
    /\ \E ok \in BOOLEAN : pc' = IF ok THEN "fetch" ELSE "exit1"
    /\ UNCHANGED <<gitVars, engineVars, tree, remote, run, start, all, resp,
                   err, peer, config, upstreamTree>>

NextConfig == ValidateConfig \/ Chdir \/ Next

SpecConfig == InitConfig /\ [][NextConfig]_vars

(***************************************************************************)
(* One pass over a checkout in which the folder web holds no manifest,     *)
(* while the tip of the remote branch may hold one: the commits a reset    *)
(* checks out may add the project web.  When the checkout is level with    *)
(* the remote branch the two trees are the same.                           *)
(***************************************************************************)
InitPull ==
    /\ pc = "fetch"
    /\ InitGit
    /\ tree = TreeWith({"notes.md"})
    /\ upstreamTree \in TreePool
    /\ head = upstream => upstreamTree = tree
    /\ remote \in {<<>>,
                   <<ArcaneProject("p1", "app", "2024-05-01T10:00:00Z", "")>>}
    /\ diskProjects = <<>>
    /\ arcaneProjects = <<>>
    /\ arcaneProjectsByName = IndexByName(<<>>)
    /\ changedProjects = {}
    /\ projectsToCreate = <<>>
    /\ projectsToSync = <<>>
    /\ idx = 0
    /\ projectID = ""
    /\ apiLog = <<>>
    /\ warnLog = <<>>
    /\ report = ""
    /\ run = 1
    /\ start = 0
    /\ all = <<>>
    /\ resp = NoResponse
    /\ err = NoError
    /\ peer = NoPeer
    /\ config = FullConfig

SpecPull == InitPull /\ [][Next]_vars

(***************************************************************************)
(* The two loops of a pass over a repository with the projects app and web *)
(* that has pulled one commit and is about to classify: the server holds   *)
(* none, one or both of them, the listing succeeded or failed, and the     *)
(* commit changed the manifest of none, one or both.                       *)
(***************************************************************************)
OrderRemotes ==
    {<<>>,
     <<ArcaneProject("p1", "app", "2024-05-01T10:00:00Z", "")>>,
     <<ArcaneProject("p1", "web", "2024-05-01T10:00:00Z", "")>>,
     <<ArcaneProject("p1", "web", "2024-05-01T10:00:00Z", ""),
       ArcaneProject("p2", "app", "2024-05-01T10:00:00Z", "")>>}

InitOrder ==
    /\ run = 1
    /\ pc = "classify"
    /\ head = Tip("R", 1) /\ upstream = Tip("R", 1) /\ originTip = Tip("R", 1)
    /\ trackedDirty = FALSE
    /\ untracked = {}
    /\ status = [Ahead |-> 0, Behind |-> 1, HasLocalChange |-> FALSE]
    /\ oldCommit = Base
    /\ changesOccurred = TRUE
    /\ gitLog = <<GitCmd("fetch", "origin", TRUE),
                  GitCmd("fetch", "origin branch", TRUE),
                  GitCmd("reset", "origin/branch", TRUE)>>
    /\ tree = TreeWith({"docker-compose.yml", "compose.yml"})
    /\ upstreamTree = tree
    /\ remote \in OrderRemotes
    /\ diskProjects = listDiskProjects(tree)
    /\ \E ok \in BOOLEAN :
          /\ arcaneProjects = IF ok THEN remote ELSE <<>>
          /\ apiLog = <<ApiCall("list", "", "", ok)>>
    /\ arcaneProjectsByName = IndexByName(arcaneProjects)
    /\ changedProjects \in SUBSET {"app", "web"}
    /\ projectsToCreate = <<>>
    /\ projectsToSync = <<>>
    /\ idx = 0
    /\ projectID = ""
    /\ warnLog = <<>>
    /\ report = ""
    /\ start = 0
    /\ all = <<>>
    /\ resp = NoResponse
    /\ err = NoError
    /\ peer = NoPeer
    /\ config = FullConfig

NextOrder ==
    \/ Classify
    \/ CreateRead \/ CreateGuard \/ CreateCall \/ CreateStart \/ CreateRedeploy
    \/ SyncRead \/ SyncUpdate \/ SyncRedeploy

SpecOrder == InitOrder /\ [][NextOrder]_vars

(***************************************************************************)
(* Properties.                                                             *)
(***************************************************************************)
\* The synchronizer has run to its end without a fatal exit: main is at one
\* of the engine's steps or has returned.  (No later step changes a git
\* variable.)
EnginePcs == {"scan", "list", "detect", "classify", "create_read",
              "create_guard", "create_call", "create_start", "create_redeploy",
              "sync_read", "sync_update", "sync_redeploy"}

SyncCompleted == pc \in EnginePcs \cup {"done"}

\* The lists projectsToCreate and projectsToSync have been computed.
Classified == pc \in (EnginePcs \ {"scan", "list", "detect", "classify"}) \cup {"done"}

Elements(seq) == {seq[i] : i \in DOMAIN seq}

Diverged == status.Ahead > 0 /\ status.Behind > 0
AheadOnly == status.Ahead > 0 /\ status.Behind = 0
BehindOnly == status.Behind > 0 /\ status.Ahead = 0
InSyncState == status.Ahead = 0 /\ status.Behind = 0

\* Positions of apiLog holding a call of `op` for project `name`
Calls(op, name) ==
    {i \in DOMAIN apiLog : apiLog[i].op = op /\ apiLog[i].name = name}

\* Number of entries of the listing that carry `name`
ListedCount(name) ==
    Cardinality({i \in DOMAIN arcaneProjects : arcaneProjects[i].Name = name})

\* C1 (as stated): whenever the synchronizer completes, the ahead-count is 0
\* and git status reports neither tracked modifications nor untracked files.
C1_SyncLeavesNoLocalChange ==
    SyncCompleted =>
        /\ RevListCount(originTip, head).Ahead = 0
        /\ ~trackedDirty
        /\ untracked = {}

\* C2: from every starting state with ahead > 0, a completed synchronization
\* leaves ahead = 0 and HEAD at the tip of the remote branch, and no
\* local-only commit is reachable from HEAD any more.
C2_AheadConvergesToRemoteTip ==
    (SyncCompleted /\ status.Ahead > 0) =>
        /\ RevListCount(originTip, head).Ahead = 0
        /\ head = upstream
        /\ originTip = upstream
        /\ \A k \in 1..status.Ahead : <<"L", k>> \notin Ancestors(head)

C2_Witness ==
    /\ pc = "scan"
    /\ Diverged
    /\ oldCommit = Tip("L", status.Ahead)
    /\ head = upstream

\* C3: changesOccurred is set exactly in the diverged and the behind-only
\* state; the ahead-only state resets to the remote tip and leaves it
\* unset; the in-sync state runs no reset and no clean.
C3_ChangedIffDivergedOrBehind ==
    SyncCompleted =>
        /\ changesOccurred <=> (Diverged \/ BehindOnly)
        /\ AheadOnly =>
              /\ \E i \in DOMAIN gitLog :
                    gitLog[i] = GitCmd("reset", "origin/branch", TRUE)
              /\ head = originTip
              /\ ~changesOccurred
        /\ InSyncState =>
              \A i \in DOMAIN gitLog : gitLog[i].cmd \notin {"reset", "clean"}

C3_Witness ==
    /\ pc = "scan"
    /\ AheadOnly
    /\ ~changesOccurred
    /\ gitLog[Len(gitLog)] = GitCmd("reset", "origin/branch", TRUE)

C5_Classification ==
    Classified =>
        /\ \A n \in Elements(diskProjects) :
              /\ n \in Elements(projectsToCreate) <=> ListedCount(n) = 0
              /\ n \in Elements(projectsToSync) <=>
                    (ListedCount(n) >= 1 /\ n \in changedProjects)
              /\ (ListedCount(n) >= 1 /\ n \notin changedProjects) =>
                    \A i \in DOMAIN apiLog : apiLog[i].name # n
        /\ Elements(projectsToCreate) \cap Elements(projectsToSync) = {}
        /\ Elements(projectsToCreate) \cup Elements(projectsToSync)
              \subseteq Elements(diskProjects)

C5_Witness ==
    /\ pc = "done"
    /\ diskProjects = <<"app", "web">>
    /\ ListedCount("app") = 2 /\ "app" \notin changedProjects
    /\ projectsToCreate = <<"web">>
    /\ "app2" \in changedProjects
    /\ Calls("create", "web") # {}

\* The entries named `name` that the server held before this pass created
\* anything, in listing order
HeldBefore(name) ==
    SelectSeq(remote, LAMBDA p : p.Name = name /\ p.ID \in Elements(ServerIds))

\* C6: every create call comes right after an exact-name lookup for the
\* same project; when that lookup succeeds and the server holds entries
\* with the name, no create is issued for the name in the pass, the
\* "already exists" warning naming their IDs is logged, and the index
\* entry of the name is those entries; the warning is logged for no other
\* reason.
C6_CreateIsGuardedByLookup ==
    /\ \A i \in DOMAIN apiLog :
          apiLog[i].op = "create" =>
             /\ i > 1
             /\ apiLog[i - 1].op = "find"
             /\ apiLog[i - 1].name = apiLog[i].name
    /\ \A n \in ProjectNames :
          ((\E i \in Calls("find", n) : apiLog[i].ok) /\ HeldBefore(n) # <<>>) =>
             /\ Calls("create", n) = {}
             /\ Warning("exists", n, HeldBefore(n)) \in Elements(warnLog)
             /\ arcaneProjectsByName[n] = HeldBefore(n)
    /\ \A w \in Elements(warnLog) :
          w.kind = "exists" =>
             /\ w.ids # <<>>
             /\ w.ids = IdsOf(HeldBefore(w.name))
             /\ \E i \in Calls("find", w.name) : apiLog[i].ok

C6_Witness ==
    /\ pc = "done"
    /\ Len(remote) >= 2
    /\ remote[1].Name = "app2" /\ remote[2].Name = "app"
    /\ Warning("exists", "app", <<remote[2]>>) \in Elements(warnLog)
    /\ Calls("create", "app") = {}
    /\ Calls("create", "web") # {}

\* The effective timestamp of an entry: updatedAt if it parses, otherwise
\* createdAt; 0 when neither parses
C7Effective(p) ==
    IF parseArcaneTime(p.UpdatedAt) # 0 THEN parseArcaneTime(p.UpdatedAt)
    ELSE parseArcaneTime(p.CreatedAt)

\* C7: for a synced name with several listed entries, every update and
\* redeploy of the sync goes to one and the same entry, and no listed entry
\* of the name has a later effective timestamp than that entry.
C7_SyncTargetsMostRecent ==
    Classified =>
        \A n \in Elements(projectsToSync) :
           LET c == SelectSeq(arcaneProjects, LAMBDA p : p.Name = n)
               ops == Calls("update", n) \cup Calls("redeploy", n)
           IN  Len(c) > 1 =>
                  \E k \in DOMAIN c :
                     /\ \A i \in ops : apiLog[i].id = c[k].ID
                     /\ \A j \in DOMAIN c : C7Effective(c[j]) <= C7Effective(c[k])

C7_Witness ==
    /\ pc = "done"
    /\ projectsToSync = <<"app">>
    /\ ListedCount("app") = 2
    /\ C7Effective(arcaneProjects[1]) < C7Effective(arcaneProjects[2])
    /\ \E i \in Calls("update", "app") : apiLog[i].id = "p2"
    /\ \E i \in Calls("redeploy", "app") : apiLog[i].id = "p2"

\* Positions of the candidates whose effective timestamp parses
C8Parsable(c) == {i \in DOMAIN c : C7Effective(c[i]) # 0}

\* First position, in listing order, holding the latest effective timestamp
C8FirstLatest(c) ==
    CHOOSE i \in C8Parsable(c) :
       /\ \A j \in C8Parsable(c) : C7Effective(c[j]) <= C7Effective(c[i])
       /\ \A j \in C8Parsable(c) :
             C7Effective(c[j]) = C7Effective(c[i]) => i <= j

\* C8: the tie-break selects the first entry in listing order when no
\* candidate has a parsable timestamp, and otherwise the first entry in
\* listing order among those with the latest effective timestamp; so it
\* never selects an entry without a parsable timestamp when some candidate
\* has one.
C8_TieBreak ==
    pc = "selected" =>
        LET c == arcaneProjectsByName["app"]
        IN  IF C8Parsable(c) = {}
            THEN projectID = c[1].ID
            ELSE /\ projectID = c[C8FirstLatest(c)].ID
                 /\ \E i \in C8Parsable(c) : projectID = c[i].ID

C8_Witness ==
    /\ pc = "selected"
    /\ Len(arcaneProjectsByName["app"]) = 2
    /\ C7Effective(arcaneProjectsByName["app"][1]) =
          C7Effective(arcaneProjectsByName["app"][2])
    /\ C7Effective(arcaneProjectsByName["app"][1]) # 0
    /\ arcaneProjectsByName["app"][1].UpdatedAt = "not-a-date"
    /\ projectID = "p1"

\* C9: a successful create is followed at once by a start on the returned
\* ID; a failed start is followed at once by one redeploy on the same ID;
\* nothing else is ever called for that project in the pass, and a
\* successful start is followed by no redeploy.
C9_CreateStartFallback ==
    \A i \in DOMAIN apiLog :
       (apiLog[i].op = "create" /\ apiLog[i].ok) =>
          LET n == apiLog[i].name
              id == apiLog[i].id
              later == {j \in DOMAIN apiLog : j > i /\ apiLog[j].name = n}
          IN  /\ later \subseteq {i + 1, i + 2}
              /\ (i + 1) \in later =>
                    apiLog[i + 1].op = "start" /\ apiLog[i + 1].id = id
              /\ (i + 2) \in later =>
                    /\ (i + 1) \in later
                    /\ ~apiLog[i + 1].ok
                    /\ apiLog[i + 2].op = "redeploy"
                    /\ apiLog[i + 2].id = id
              /\ (i + 1) \notin later =>
                    pc = "create_start" /\ projectsToCreate[idx] = n
              /\ ((i + 1) \in later /\ ~apiLog[i + 1].ok /\ (i + 2) \notin later) =>
                    pc = "create_redeploy" /\ projectsToCreate[idx] = n

C9_Witness ==
    /\ pc = "done"
    /\ \E i \in Calls("create", "app") :
          /\ apiLog[i].ok
          /\ apiLog[i + 1] = ApiCall("start", "app", apiLog[i].id, FALSE)
          /\ apiLog[i + 2] = ApiCall("redeploy", "app", apiLog[i].id, FALSE)
          /\ Len(apiLog) > i + 2
          /\ apiLog[i].id = "app"

Count(op, name) == Cardinality(Calls(op, name))

\* The pass is over, no disk project has an entry in the listing, and the
\* exact-name lookup of every disk project succeeded and found nothing.
C10Scenario ==
    /\ pc = "done"
    /\ diskProjects # <<>>
    /\ \A n \in Elements(diskProjects) :
          /\ ListedCount(n) = 0
          /\ \E i \in Calls("find", n) : apiLog[i].ok
          /\ \A w \in Elements(warnLog) : ~(w.kind = "exists" /\ w.name = n)

StartFailed(n) == \E i \in Calls("start", n) : ~apiLog[i].ok

\* C10 (as stated): in that scenario every disk project gets exactly one
\* create call and exactly one start call, one redeploy if its start failed
\* and none otherwise, and no update is issued.
C10_OneCreateOneStartEach ==
    C10Scenario =>
        /\ \A n \in Elements(diskProjects) :
              /\ Count("create", n) = 1
              /\ Count("start", n) = 1
              /\ Count("redeploy", n) = IF StartFailed(n) THEN 1 ELSE 0
        /\ \A i \in DOMAIN apiLog : apiLog[i].op # "update"

\* C10 (amended): in that scenario every disk project gets exactly one
\* create call; a create that succeeded is followed at once by exactly one
\* start call, and by one redeploy if that start failed and none
\* otherwise; a create that failed is followed by no start and no redeploy
\* for the project; no update is issued.
C10_OneCreateEachStartIfCreated ==
    C10Scenario =>
        /\ \A n \in Elements(diskProjects) :
              /\ Count("create", n) = 1
              /\ \A i \in Calls("create", n) :
                    IF apiLog[i].ok
                    THEN /\ Count("start", n) = 1
                         /\ (i + 1) \in Calls("start", n)
                         /\ Count("redeploy", n) = IF StartFailed(n) THEN 1 ELSE 0
                    ELSE /\ Count("start", n) = 0
                         /\ Count("redeploy", n) = 0
        /\ \A i \in DOMAIN apiLog : apiLog[i].op # "update"

C10_Witness ==
    /\ C10Scenario
    /\ diskProjects = <<"app", "web">>
    /\ \E i \in Calls("start", "app") : apiLog[i].ok
    /\ StartFailed("web")
    /\ Count("redeploy", "web") = 1
    /\ Count("redeploy", "app") = 0
    /\ Count("create", "app") = 1 /\ Count("create", "web") = 1

\* Positions of apiLog holding a call of `op` for project `name` sent by the
\* pass in progress
RunCalls(op, name) == {i \in Calls(op, name) : apiLog[i].run = run}

\* The sync loop has finished its body for projectsToSync[i]
SyncProcessed(i) ==
    /\ Classified
    /\ i \in DOMAIN projectsToSync
    /\ \/ pc = "done"
       \/ pc \in {"sync_read", "sync_update", "sync_redeploy"} /\ i < idx

\* logError of lines 514 and 587 was written for `name` in this pass
Unreadable(name) ==
    \E k \in DOMAIN warnLog : warnLog[k] = Warning("unreadable", name, <<>>)

\* An update call at position u directly followed by a redeploy call on the
\* same ID
UpdateThenRedeploy(name, u) ==
    /\ u \in RunCalls("update", name)
    /\ u + 1 \in RunCalls("redeploy", name)
    /\ apiLog[u + 1].id = apiLog[u].id

\* C11 (as stated): for every project classified sync the engine issues an
\* update call and then a redeploy call on the same target ID, whether or
\* not the update succeeded.
C11_EverySyncUpdatesThenRedeploys ==
    \A i \in DOMAIN projectsToSync :
        SyncProcessed(i) =>
            \E u \in DOMAIN apiLog : UpdateThenRedeploy(projectsToSync[i], u)

\* C11 (amended): for every project classified sync whose manifest was read,
\* the engine issues exactly one update call and directly after it exactly
\* one redeploy call on the same target ID, whatever the outcome of the
\* update; a project whose manifest could not be read gets neither call.
C11_SyncUpdatesThenRedeploysIfRead ==
    \A i \in DOMAIN projectsToSync :
        SyncProcessed(i) =>
            LET name == projectsToSync[i]
            IN  IF Unreadable(name)
                THEN RunCalls("update", name) = {}
                     /\ RunCalls("redeploy", name) = {}
                ELSE /\ Cardinality(RunCalls("update", name)) = 1
                     /\ Cardinality(RunCalls("redeploy", name)) = 1
                     /\ \A u \in RunCalls("update", name) :
                            UpdateThenRedeploy(name, u)

\* A finished pass in which an update failed and the redeploy was sent all
\* the same.
C11_Witness ==
    /\ pc = "done"
    /\ \E u \in DOMAIN apiLog :
          /\ apiLog[u].op = "update" /\ ~apiLog[u].ok
          /\ UpdateThenRedeploy(apiLog[u].name, u)

\* Every disk project has an entry among `projects`
AllDiskHeld(projects) ==
    \A d \in Elements(listDiskProjects(tree)) :
        \E i \in DOMAIN projects : projects[i].Name = d

\* No git command, no API call and no manifest read of the pass in progress
\* has failed
FailureFree ==
    /\ \A k \in DOMAIN gitLog : gitLog[k].ok
    /\ \A i \in DOMAIN apiLog : apiLog[i].run = run => apiLog[i].ok
    /\ \A k \in DOMAIN warnLog : warnLog[k].kind \notin {"unreadable", "diff"}

\* The pass in progress has listed the server's projects, and the list call
\* succeeded
ListedOk ==
    /\ pc \in (EnginePcs \ {"scan", "list"}) \cup {"done"}
    /\ \E i \in RunCalls("list", "") : apiLog[i].ok

\* C12 (as stated): a pass that follows another pass issues no create, no
\* update and no redeploy call.
C12_SecondRunIssuesNoCall ==
    \A i \in DOMAIN apiLog :
        apiLog[i].run > 1 => apiLog[i].op \notin {"create", "update", "redeploy"}

\* C12 (amended): a pass in which nothing failed ends with the checkout at
\* the remote tip and with a remote entry for every disk project; and a
\* later pass that finds the checkout in sync with the remote branch and
\* whose list call succeeds and shows an entry for every disk project issues
\* no call but that list call.
C12_SecondRunIssuesNoCallAfterCleanRun ==
    /\ (pc = "done" /\ FailureFree) =>
            head = upstream /\ AllDiskHeld(remote)
    /\ (run > 1 /\ SyncCompleted /\ InSyncState /\ ListedOk
           /\ AllDiskHeld(arcaneProjects)) =>
            \A i \in DOMAIN apiLog :
                apiLog[i].run = run => apiLog[i].op = "list"

\* The first pass created and started app, the second pass has ended having
\* sent its list call only.
C12_Witness ==
    /\ run = 2 /\ pc = "done"
    /\ InSyncState /\ ListedOk /\ AllDiskHeld(arcaneProjects)
    /\ \E i \in Calls("create", "app") : apiLog[i].run = 1 /\ apiLog[i].ok
    /\ report = "All projects are in sync, no changes needed"

\* The list call of the pass in progress has been sent and it failed
ListFailed == \E i \in RunCalls("list", "") : ~apiLog[i].ok

\* Positions of apiLog holding a call of `op` for `name` that changes the
\* server: a create, a start, an update or a redeploy
Operations(name) ==
    RunCalls("create", name) \cup RunCalls("start", name)
       \cup RunCalls("update", name) \cup RunCalls("redeploy", name)

\* C13 (as stated): no create, update, start or redeploy is issued for a
\* disk project that the server already holds and that is not in the
\* change-set.
C13_NoOperationOnUnchangedHeld ==
    \A n \in Elements(diskProjects) :
        (HeldBefore(n) # <<>> /\ n \notin changedProjects) =>
            Operations(n) = {}

\* C13 (amended): for a disk project that the server already holds and that
\* is not in the change-set, no operation is issued when the list call of
\* the pass succeeded; when it failed no update is issued, and a create
\* only after the exact-name lookup for the project failed as well.  Every
\* update call is for a project of the change-set.
C13_NoOperationOnUnchangedListed ==
    /\ \A n \in Elements(diskProjects) :
          (HeldBefore(n) # <<>> /\ n \notin changedProjects) =>
              /\ ~ListFailed => Operations(n) = {}
              /\ RunCalls("update", n) = {}
              /\ Operations(n) # {} =>
                    \E i \in RunCalls("find", n) : ~apiLog[i].ok
    /\ \A i \in DOMAIN apiLog :
          apiLog[i].op = "update" => apiLog[i].name \in changedProjects

\* app and web are both held by the server, only app is in the change-set:
\* the finished pass has updated and redeployed app and sent nothing for web.
C13_Witness ==
    /\ pc = "done"
    /\ diskProjects = <<"app", "web">>
    /\ HeldBefore("app") # <<>> /\ HeldBefore("web") # <<>>
    /\ changedProjects = {"app"}
    /\ RunCalls("update", "app") # {} /\ RunCalls("redeploy", "app") # {}
    /\ \A i \in DOMAIN apiLog : apiLog[i].name # "web"

\* The loop body has run for `name`: its manifest could not be read, or the
\* first API call of the body (`firstOp`) was sent
Attempted(name, firstOp) == Unreadable(name) \/ RunCalls(firstOp, name) # {}

\* C14: a finished pass has attempted every project it classified create
\* (manifest read, then the exact-name lookup) and every project it
\* classified sync (manifest read, then the update), whatever the outcomes
\* for the projects before it; and the process never exits with status 1
\* once the projects are classified, so no per-project failure ends it.
C14_FailuresStayWithTheirProject ==
    /\ pc = "done" =>
          /\ \A n \in Elements(projectsToCreate) : Attempted(n, "find")
          /\ \A n \in Elements(projectsToSync) : Attempted(n, "update")
    /\ pc = "exit1" =>
          /\ projectsToCreate = <<>> /\ projectsToSync = <<>>
          /\ \A i \in DOMAIN apiLog :
                apiLog[i].run = run => apiLog[i].op = "list"

\* The create call for app failed, and web was created after it.
C14_Witness ==
    /\ pc = "done"
    /\ projectsToCreate = <<"app", "web">>
    /\ \E i \in RunCalls("create", "app"), j \in RunCalls("create", "web") :
          /\ ~apiLog[i].ok
          /\ i < j /\ apiLog[j].ok

\* The projects the two loops act on
ActedOn == Elements(projectsToCreate) \cup Elements(projectsToSync)

\* The pass failed on `name`: its manifest could not be read, its create or
\* its update failed, or a redeploy of it failed
ProjectFailed(name) ==
    \/ Unreadable(name)
    \/ \E i \in RunCalls("create", name) \cup RunCalls("update", name)
                \cup RunCalls("redeploy", name) : ~apiLog[i].ok

\* C15 (as stated): a pass that has acted on projects ends with the success
\* report unless every one of them failed, and without it when every one
\* of them failed.
C15_SuccessUnlessEveryProjectFailed ==
    (pc = "done" /\ ActedOn # {}) =>
        (report = "Compose sync completed successfully!"
            <=> \E n \in ActedOn : ~ProjectFailed(n))

\* Positions of apiLog holding a create, start, update or redeploy call
\* that failed in the pass before the one in progress
FailedBefore ==
    {i \in DOMAIN apiLog :
        /\ apiLog[i].run = run - 1
        /\ apiLog[i].op \in {"create", "start", "update", "redeploy"}
        /\ ~apiLog[i].ok}

\* C16 (as stated): a pass that runs to its end after another pass has
\* attempted (read the manifest of, or sent a call for) every project whose
\* create, start, update or redeploy failed in that pass.
C16_NextPassRetriesFailedProjects ==
    (run > 1 /\ pc = "done") =>
        \A i \in FailedBefore :
            \/ Unreadable(apiLog[i].name)
            \/ \E j \in DOMAIN apiLog :
                  /\ apiLog[j].run = run
                  /\ apiLog[j].name = apiLog[i].name

\* The names of the disk inventory
DiskNames == Elements(listDiskProjects(tree))

\* C17: the server never loses a project (the client has no delete call:
\* every request is a list, find, create, start, update or redeploy), and
\* every request other than the list call is for a name of the disk
\* inventory, whatever the change-set names.
C17_NeverTouchesRemoteOnlyNames ==
    /\ [](\A i \in DOMAIN apiLog :
            /\ apiLog[i].op \in {"list", "find", "create", "start", "update",
                                 "redeploy"}
            /\ apiLog[i].op # "list" => apiLog[i].name \in DiskNames)
    /\ [][/\ Len(remote') >= Len(remote)
          /\ \A k \in DOMAIN remote : remote'[k] = remote[k]]_vars

\* The server holds app2, which is not on disk, the change-set names app2,
\* and the finished pass has updated app and sent nothing for app2.
C17_Witness ==
    /\ pc = "done"
    /\ "app2" \notin DiskNames
    /\ \E k \in DOMAIN remote : remote[k].Name = "app2"
    /\ changedProjects = {"app", "app2"}
    /\ RunCalls("update", "app") # {}
    /\ \A i \in DOMAIN apiLog : apiLog[i].name # "app2"

\* C18: the step that sends the list call always goes on to the change-set
\* detection, whether the call succeeded or failed; after a failed list
\* call the listing and the index are empty, every disk project is
\* classified create and none sync, and every create call of the pass still
\* comes right after the exact-name lookup for the same project.
C18_ListFailureMeansAllCreateCandidates ==
    /\ [][pc = "list" => pc' = "detect"]_vars
    /\ [](ListFailed =>
            /\ arcaneProjects = <<>>
            /\ Classified =>
                  /\ projectsToCreate = diskProjects
                  /\ projectsToSync = <<>>
            /\ \A i \in RunCalls("create", "app") \cup RunCalls("create", "web") :
                  /\ i - 1 \in RunCalls("find", apiLog[i].name)
                  /\ ~apiLog[i - 1].ok \/ HeldBefore(apiLog[i].name) = <<>>)

\* The list call failed; app, which the server holds, was found by its
\* lookup and not created; web was created.
C18_Witness ==
    /\ pc = "done"
    /\ ListFailed
    /\ projectsToCreate = <<"app", "web">>
    /\ HeldBefore("app") # <<>>
    /\ \E i \in RunCalls("find", "app") : apiLog[i].ok
    /\ RunCalls("create", "app") = {}
    /\ \E i \in RunCalls("create", "web") : apiLog[i].ok

\* The paths git diff printed for the detector, {} when it was not run
DiffOutput == IF gitLog = <<>> THEN {} ELSE gitLog[Len(gitLog)].target

DiffFailed == gitLog # <<>> /\ ~gitLog[Len(gitLog)].ok

\* `name` is the directory a manifest of `files` lies in ("." for a manifest
\* at the repository root)
HoldsChangedManifest(name, files) ==
    \E f \in files :
        /\ f[Len(f)] \in {"compose.yaml", "compose.yml", "docker-compose.yaml",
                          "docker-compose.yml"}
        /\ name = IF Len(f) = 1 THEN "." ELSE f[Len(f) - 1]

DetectNames == {".", "a", "b", "stacks", "unrelated", ".env", "compose.yaml"}

\* C19 (as stated): the detector returns {} for equal revisions, and
\* otherwise exactly the parent directory names of the manifests among the
\* differing paths.
C19_DetectReturnsManifestParents ==
    pc = "detected" =>
        IF oldCommit = head THEN changedProjects = {}
        ELSE /\ changedProjects \subseteq DetectNames
             /\ \A name \in DetectNames :
                    name \in changedProjects
                       <=> HoldsChangedManifest(name, DiffOutput)

\* C19 (amended): the detector returns {} for equal revisions and when git
\* diff fails, and otherwise exactly the parent directory names of the
\* manifests among the paths git diff printed, whatever their depth; a
\* diff of a/compose.yaml and unrelated/readme.md yields {a}.
C19_DetectReturnsManifestParentsIfDiffOk ==
    pc = "detected" =>
        /\ IF oldCommit = head \/ DiffFailed THEN changedProjects = {}
           ELSE /\ changedProjects \subseteq DetectNames
                /\ \A name \in DetectNames :
                       name \in changedProjects
                          <=> HoldsChangedManifest(name, DiffOutput)
        /\ (~DiffFailed /\ DiffOutput = {<<"a", "compose.yaml">>,
                                         <<"unrelated", "readme.md">>})
              => changedProjects = {"a"}

\* Two manifests of a, its .env, a manifest two levels down and a file that
\* is no manifest differ: the change-set is {a, b}.
C19_Witness ==
    /\ pc = "detected"
    /\ oldCommit # head
    /\ ~DiffFailed
    /\ DiffOutput = DetectPaths \ {<<"compose.yaml">>}
    /\ changedProjects = {"a", "b"}

\* The change-sets the detector can return for the revisions `old` and `new`
DetectorResults(old, new) ==
    {detectChangedProjects(old, new, files, ok) :
        files \in SUBSET DiffPaths, ok \in BOOLEAN}

\* C20: the step of lines 471-482 calls the detector exactly when
\* changesOccurred is set: with it unset the change-set is empty and main
\* goes on to the classification; with it set main exits (rev-parse
\* failed) or the change-set is a result of the detector for oldCommit and
\* HEAD.  Whenever the synchronizer has set changesOccurred, oldCommit is
\* the tip the checkout had before the synchronization, HEAD is the remote
\* tip, and the two differ.
C20_DetectorRunsIffChanged ==
    /\ [][pc = "detect" =>
            IF changesOccurred
            THEN \/ pc' = "exit1" /\ changedProjects' = changedProjects
                 \/ /\ pc' = "classify"
                    /\ changedProjects' \in DetectorResults(oldCommit, head)
            ELSE pc' = "classify" /\ changedProjects' = {}]_vars
    /\ []((SyncCompleted /\ ~changesOccurred) => changedProjects = {})
    /\ []((SyncCompleted /\ changesOccurred) =>
            /\ oldCommit = Tip("L", status.Ahead)
            /\ head = originTip
            /\ oldCommit # head)

\* The checkout had diverged; the detector was called with the local tip
\* and the remote tip and returned app.
C20_Witness ==
    /\ pc = "classify"
    /\ changesOccurred
    /\ Diverged
    /\ oldCommit = Tip("L", 1) /\ head = Tip("R", 1)
    /\ changedProjects = {"app"}

ManifestNames == {"compose.yaml", "compose.yml", "docker-compose.yaml",
                  "docker-compose.yml"}

\* C21: the scanned inventory holds an entry of the root iff the entry is a
\* directory, its name does not begin with '.', it is not syncTool, and one
\* of the four manifest names lies directly inside it; it holds nothing
\* else (no name of a nested directory), each name once, in the order of
\* the directory listing.
C21_InventoryIsManifestDirectories ==
    pc = "scanned" =>
        /\ \A k \in DOMAIN RootEntries :
              LET e == RootEntries[k]
              IN  e \in Elements(diskProjects) <=>
                     /\ tree[e].isDir
                     /\ e # ".git"
                     /\ e # "syncTool"
                     /\ tree[e].files \cap ManifestNames # {}
        /\ Elements(diskProjects) \subseteq Elements(RootEntries)
        /\ \A i, j \in DOMAIN diskProjects :
              i < j => \E k, l \in DOMAIN RootEntries :
                          /\ k < l
                          /\ RootEntries[k] = diskProjects[i]
                          /\ RootEntries[l] = diskProjects[j]

\* .git and syncTool hold a manifest, README.md is a plain file, app holds
\* a manifest and web only a subdirectory with one: the inventory is app.
C21_Witness ==
    /\ pc = "scanned"
    /\ tree[".git"] = Dir({"compose.yaml"})
    /\ tree["syncTool"] = Dir({"compose.yaml"})
    /\ tree["README.md"] = File
    /\ tree["app"] = Dir({"docker-compose.yml", "notes.md"})
    /\ tree["web"] = Dir({"b"})
    /\ diskProjects = <<"app">>

\* Place of a manifest name in the fixed order
ManifestRank(f) == CASE f = "compose.yaml"        -> 1
                     [] f = "compose.yml"         -> 2
                     [] f = "docker-compose.yaml" -> 3
                     [] OTHER                     -> 4

\* The manifests lying directly in the directory of project `name`
ManifestsOf(name) == tree[name].files \cap ManifestNames

\* The values the body of the request at position i carries for `field`
BodyValues(i, field) == {v[2] : v \in {w \in apiLog[i].body : w[1] = field}}

\* C22: every create and every update request carries as composeContent
\* the content of exactly one file, the manifest of the project's directory
\* that comes first in the order compose.yaml, compose.yml,
\* docker-compose.yaml, docker-compose.yml, whichever files the diff named.
C22_ContentIsFirstManifestInOrder ==
    \A i \in DOMAIN apiLog :
        apiLog[i].op \in {"create", "update"} =>
            \E f \in ManifestsOf(apiLog[i].name) :
                /\ \A g \in ManifestsOf(apiLog[i].name) :
                       ManifestRank(f) <= ManifestRank(g)
                /\ BodyValues(i, "composeContent")
                      = {FileContent(tree, apiLog[i].name, f)}

\* web holds compose.yml and docker-compose.yml and was created with the
\* content of compose.yml; app holds compose.yaml and docker-compose.yml
\* and was updated with the content of compose.yaml.
C22_Witness ==
    /\ pc = "done"
    /\ ManifestsOf("web") = {"compose.yml", "docker-compose.yml"}
    /\ ManifestsOf("app") = {"compose.yaml", "docker-compose.yml"}
    /\ \E i \in RunCalls("create", "web") :
          BodyValues(i, "composeContent") = {<<"web", "compose.yml">>}
    /\ \E i \in RunCalls("update", "app") :
          BodyValues(i, "composeContent") = {<<"app", "compose.yaml">>}

\* The one value the page request at position i carries for `field`
PageField(i, field) == CHOOSE v \in BodyValues(i, field) : TRUE

\* The page request at position i was answered with a full page and with no
\* total that the entries received up to it have reached
PageContinues(i) ==
    /\ apiLog[i].ok
    /\ Len(PageAt(PageField(i, "start"))) = pageSize
    /\ ~(/\ PageField(i, "total") > 0
          /\ Min(Len(remote), i * pageSize) >= PageField(i, "total"))

RECURSIVE PagesUpTo(_)
\* The pages of the first j requests, one after the other
PagesUpTo(j) ==
    IF j = 0 THEN <<>> ELSE PagesUpTo(j - 1) \o PageAt(pageSize * (j - 1))

\* C23: the j-th request asks for 50 entries at offset 50*(j-1); a further
\* request is made only after a successful full page that did not reach a
\* reported total; the listing returns at the first short page or reached
\* total with the pages received, in order, and a failed page makes it
\* return nothing.
C23_PagesOfFiftyUntilShortOrTotal ==
    /\ \A i \in 1..Len(apiLog) :
          /\ apiLog[i].op = "list"
          /\ BodyValues(i, "start") = {pageSize * (i - 1)}
          /\ BodyValues(i, "limit") = {pageSize}
          /\ i < Len(apiLog) => PageContinues(i)
    /\ pc = "page" => \A i \in 1..Len(apiLog) : PageContinues(i)
    /\ pc = "listed" =>
          /\ Len(apiLog) > 0
          /\ apiLog[Len(apiLog)].ok
          /\ ~PageContinues(Len(apiLog))
          /\ arcaneProjects = PagesUpTo(Len(apiLog))
    /\ pc = "list_failed" =>
          /\ Len(apiLog) > 0
          /\ ~apiLog[Len(apiLog)].ok
          /\ arcaneProjects = <<>>

\* Witness for C23: 101 projects fetched in three pages, the last of one
\* entry
C23_Witness ==
    /\ pc = "listed"
    /\ Len(remote) = 2 * pageSize + 1
    /\ Len(apiLog) = 3
    /\ Len(PageAt(PageField(3, "start"))) = 1
    /\ arcaneProjects = remote

\* Witness for C23: a third page fails after two full ones and nothing is
\* returned
C23_WitnessFailure ==
    /\ pc = "list_failed"
    /\ Len(apiLog) = 3
    /\ arcaneProjects = <<>>

\* C24: an answer whose status code is outside 200..299 comes back from the
\* client method as the API error with that status code and body, and the
\* call is not counted as successful.
C24_NonSuccessStatusIsError ==
    (pc = "responded" /\ resp # NoResponse /\ resp.StatusCode \notin 200..299)
        => /\ err = ApiError(resp)
           /\ ~apiLog[Len(apiLog)].ok

\* The request at position i carries `field` exactly when `content` is not
\* empty, and then with that content
CarriesIfNonEmpty(i, field, content) ==
    BodyValues(i, field) = (IF content = <<>> THEN {} ELSE {content})

\* C25: an update request carries composeContent exactly when the manifest
\* has content and envContent exactly when the .env file exists and has
\* content; a create request carries envContent under the same condition;
\* so no request for a project without .env file, or with an empty one,
\* carries an envContent that would replace the one the server holds.
C25_EmptyContentIsLeftOut ==
    \A i \in DOMAIN apiLog :
        /\ apiLog[i].op = "update" =>
              /\ CarriesIfNonEmpty(i, "composeContent",
                                   ReadManifest(tree, apiLog[i].name))
              /\ CarriesIfNonEmpty(i, "envContent",
                                   ReadEnv(tree, apiLog[i].name))
        /\ apiLog[i].op = "create" =>
              CarriesIfNonEmpty(i, "envContent", ReadEnv(tree, apiLog[i].name))
        /\ (/\ apiLog[i].op \in {"create", "update"}
            /\ \/ ".env" \notin tree[apiLog[i].name].files
               \/ ".env" \in tree[apiLog[i].name].empty)
              => BodyValues(i, "envContent") = {}

\* Witness for C25: app has an empty .env file and an empty manifest and was
\* updated with a request that carries neither field
C25_Witness ==
    /\ pc = "done"
    /\ tree["app"] = DirWith({"compose.yaml", ".env"}, {"compose.yaml", ".env"})
    /\ \E i \in RunCalls("update", "app") :
          apiLog[i].ok /\ apiLog[i].body = {}

\* The remote entries named n, in listing order
RemoteNamed(n) == SelectSeq(remote, LAMBDA p : p.Name = n)

\* Positions of the diagnostics of this pass that list several IDs for n:
\* the duplicate warning after the listing and the warning of the guard
DuplicateDiagnostics(n) ==
    {i \in DOMAIN warnLog :
        /\ warnLog[i].kind \in {"duplicate", "exists"}
        /\ warnLog[i].name = n
        /\ Len(warnLog[i].ids) > 1}

\* C26: a name for which the listing or the guard's lookup returned more
\* than one entry has exactly one diagnostic in the pass, and it lists the
\* IDs of all remote entries of that name; a name for which neither did has
\* none.
C26_DuplicatesReportedOncePerName ==
    \A n \in ProjectNames :
        IF Len(arcaneProjectsByName[n]) > 1
        THEN /\ Cardinality(DuplicateDiagnostics(n)) = 1
             /\ \A i \in DuplicateDiagnostics(n) :
                    warnLog[i].ids = IdsOf(RemoteNamed(n))
        ELSE DuplicateDiagnostics(n) = {}

\* Witness for C26: the listing returned two entries named app and the pass
\* ended with one diagnostic naming both IDs
C26_Witness ==
    /\ pc = "done"
    /\ Len(arcaneProjects) = 2
    /\ Len(arcaneProjectsByName["app"]) = 2
    /\ \E i \in DuplicateDiagnostics("app") :
          warnLog[i].kind = "duplicate" /\ Len(warnLog[i].ids) = 2

\* The step is a git clean that failed
CleanFailed ==
    /\ Len(gitLog') = Len(gitLog) + 1
    /\ gitLog'[Len(gitLog')].cmd = "clean"
    /\ ~gitLog'[Len(gitLog')].ok

\* C27: a failed git clean is recorded as failed and main goes on with the
\* step that follows a successful one: the inventory scan in the diverged
\* state, the fetch of the branch in the behind-only state with local
\* changes; it never ends the process.
C27_CleanFailureDoesNotAbort ==
    [][CleanFailed =>
          /\ pc \in {"div_clean", "behind_clean"}
          /\ pc' = (IF pc = "div_clean" THEN "scan" ELSE "behind_fetch")
          /\ pc = "div_clean" => Diverged
          /\ pc = "behind_clean" => BehindOnly /\ status.HasLocalChange]_vars

\* Witness for C27: the checkout had diverged, git clean failed, and the
\* pass went through the reconciliation to its end
C27_Witness ==
    /\ pc = "done"
    /\ Diverged
    /\ \E i \in DOMAIN gitLog : gitLog[i].cmd = "clean" /\ ~gitLog[i].ok
    /\ \E i \in DOMAIN apiLog : apiLog[i].op = "create" /\ apiLog[i].ok

\* The same in the behind-only state with local changes
C27_WitnessBehind ==
    /\ pc = "done"
    /\ BehindOnly
    /\ \E i \in DOMAIN gitLog : gitLog[i].cmd = "clean" /\ ~gitLog[i].ok
    /\ \E i \in DOMAIN apiLog : apiLog[i].op = "update" /\ apiLog[i].ok

\* The untracked paths the allow-list .env.global, *.env.local, .env covers
AllowListed ==
    {".env", ".env.global", ".env.local", "dev.env.local", "web/.env"}

\* The step is a git clean
CleanRan ==
    /\ Len(gitLog') = Len(gitLog) + 1
    /\ gitLog'[Len(gitLog')].cmd = "clean"

\* C28: a git clean removes no untracked path of the allow-list and, when
\* it succeeds, removes every other untracked path; a failed one removes
\* nothing, and no step adds an untracked path.
C28_CleanKeepsAllowListOnly ==
    [][/\ untracked' \subseteq untracked
       /\ CleanRan =>
             IF gitLog'[Len(gitLog')].ok
             THEN untracked' = untracked \cap AllowListed
             ELSE untracked' = untracked]_vars

\* Witness for C28: a successful clean in the diverged state has left the
\* five allow-listed paths of the eight that were untracked
C28_Witness ==
    /\ pc = "scan"
    /\ Diverged
    /\ gitLog[Len(gitLog)] = GitCmd("clean", "-fd", TRUE)
    /\ untracked = AllowListed
    /\ untracked # CleanFiles

\* Positions of the successful create requests for n
CreatedAt(n) == {i \in Calls("create", n) : apiLog[i].ok}

\* Positions of the lookups for n that invocation r made before position i
LookupsBefore(n, r, i) ==
    {j \in Calls("find", n) : j < i /\ apiLog[j].run = r}

\* Both invocations looked app up with success before either created it,
\* and both created it
BothLookedUpBeforeEitherCreated ==
    \E i1, i2 \in CreatedAt("app") :
        /\ apiLog[i1].run = run
        /\ apiLog[i2].run = run + 1
        /\ \E j1 \in LookupsBefore("app", run, i1),
              j2 \in LookupsBefore("app", run + 1, i2) :
              /\ apiLog[j1].ok /\ apiLog[j2].ok
              /\ j1 < i2 /\ j2 < i1

\* C29: with two invocations running, the server holds one entry per
\* successful create; every create request follows a lookup of its own
\* invocation for that name which failed or was answered before any create
\* for the name succeeded, and no invocation creates a name twice.  The
\* guard therefore excludes a second entry only when a lookup is answered
\* after the other invocation's create: two entries named app are on the
\* server exactly when both invocations created it, and with both lookups
\* successful that is the interleaving in which both lookups come before
\* both creates.
C29_RaceIsTheOnlyWayToTwoEntries ==
    /\ \A n \in ProjectNames :
          /\ Len(RemoteNamed(n)) = Cardinality(CreatedAt(n))
          /\ \A i1, i2 \in CreatedAt(n) :
                apiLog[i1].run = apiLog[i2].run => i1 = i2
          /\ \A i \in Calls("create", n) :
                \E j \in LookupsBefore(n, apiLog[i].run, i) :
                    apiLog[j].ok => \A k \in CreatedAt(n) : j < k
    /\ (/\ Len(RemoteNamed("app")) = 2
        /\ \A j \in Calls("find", "app") : apiLog[j].ok)
          => BothLookedUpBeforeEitherCreated

\* Witness for C29: both invocations have ended, both lookups for app were
\* answered with success before either create, both creates succeeded and
\* the server holds two entries named app
C29_Witness ==
    /\ pc = "done" /\ peer.pc = "done"
    /\ BothLookedUpBeforeEitherCreated
    /\ \A j \in Calls("find", "app") : apiLog[j].ok
    /\ Len(RemoteNamed("app")) = 2
    /\ RemoteNamed("app")[1].ID # RemoteNamed("app")[2].ID

\* The steps of the two per-project loops
LoopPcs == {"create_read", "create_guard", "create_call", "create_start",
            "create_redeploy", "sync_read", "sync_update", "sync_redeploy"}

\* No create, update, start or redeploy request has been sent
NothingChangedRemotely ==
    \A i \in DOMAIN apiLog :
        apiLog[i].op \notin {"create", "update", "start", "redeploy"}

\* The repository path, the base URL or the API key is not set
ConfigIncomplete ==
    \E setting \in {"RepoPath", "ArcaneBaseURL", "ArcaneAPIKey"} :
        config[setting] = ""

\* C30: with a required setting missing the process does nothing but exit
\* with status 1 at the validation; a failed read of the repository root
\* ends it with status 1 at once; whenever it has exited with status 1 no
\* create, update, start or redeploy request was sent and no project was
\* classified; and no step of the two per-project loops ends it.
C30_FatalOnlyBeforeReconciliation ==
    /\ [](ConfigIncomplete =>
            /\ pc \in {"config", "exit1"}
            /\ gitLog = <<>> /\ apiLog = <<>>)
    /\ [](pc = "exit1" =>
            /\ NothingChangedRemotely
            /\ projectsToCreate = <<>> /\ projectsToSync = <<>>)
    /\ [][/\ (pc = "config" /\ ConfigIncomplete) => pc' = "exit1"
          /\ pc = "scan" =>
                \/ pc' = "exit1" /\ diskProjects' = diskProjects
                \/ pc' = "list" /\ diskProjects' = listDiskProjects(tree)
          /\ pc \in LoopPcs => pc' \in LoopPcs \cup {"done"}]_vars

\* Witness for C30: the API key alone was missing and the process has
\* exited without a git command or a request
C30_Witness ==
    /\ pc = "exit1"
    /\ config = [FullConfig EXCEPT !.ArcaneAPIKey = ""]
    /\ gitLog = <<>> /\ apiLog = <<>>

\* With a full configuration a pass with failed requests in both loops has
\* run to its end
C30_WitnessLoops ==
    /\ pc = "done"
    /\ config = FullConfig
    /\ \E i \in DOMAIN apiLog : apiLog[i].op = "create" /\ ~apiLog[i].ok

\* The steps of the git synchronizer
SyncPcs == {"fetch", "status", "branch", "div_reset", "div_clean",
            "ahead_reset", "behind_clean", "behind_fetch", "behind_reset"}

\* The names of the projects in the tree of the remote tip
UpstreamNames == Elements(listDiskProjects(upstreamTree))

\* C31: the pass starts with the fetch; while the synchronizer runs nothing
\* is scanned, listed or sent; once it has completed the checkout is at the
\* remote tip with the files of the remote tip, the disk inventory is the
\* inventory of those files, and a finished pass has attempted the create
\* of every project in them that the listing did not hold.
C31_SynchronizerRunsFirst ==
    /\ pc # "fetch" => (gitLog # <<>> /\ gitLog[1].cmd = "fetch")
    /\ pc \in SyncPcs => (apiLog = <<>> /\ diskProjects = <<>>)
    /\ SyncCompleted => (head = originTip /\ tree = upstreamTree)
    /\ (SyncCompleted /\ pc # "scan") =>
          diskProjects = listDiskProjects(upstreamTree)
    /\ pc = "done" =>
          \A n \in UpstreamNames :
              IndexByName(arcaneProjects)[n] = <<>> => Attempted(n, "find")

\* Witness for C31: the checkout was behind and held no project web, the
\* reset has checked out the web manifest, and the pass has created web
C31_Witness ==
    /\ pc = "done"
    /\ BehindOnly
    /\ "web" \in UpstreamNames
    /\ diskProjects = <<"app", "web">>
    /\ \E i \in RunCalls("create", "web") : apiLog[i].ok

\* The step records the commit identifier in oldCommit (lines 349-353)
RecordsOldCommit == pc = "status" /\ pc' = "branch"

\* The step reads the new commit identifier and calls the detector
\* (lines 475-480)
CallsDetector == pc = "detect" /\ changesOccurred /\ pc' = "classify"

\* The detector is called with oldCommit, which is the tip the checkout
\* had when the pass began, and with HEAD after the resets, which is the
\* tip of the remote branch
DetectorGetsOldAndNew ==
    CallsDetector =>
        /\ oldCommit = Tip("L", status.Ahead)
        /\ head = upstream
        /\ \A i \in DOMAIN gitLog :
              gitLog[i].cmd = "reset" /\ gitLog[i].target = "origin/branch"
                 => gitLog[i].ok
        /\ changedProjects' \in DetectorResults(oldCommit, head)

\* C32 as claimed: oldCommit is recorded before the first fetch has run,
\* and the detector gets it together with HEAD after the resets.
C32_OldCommitRecordedBeforeFetch ==
    [][/\ RecordsOldCommit => (gitLog = <<>> /\ oldCommit' = head)
       /\ DetectorGetsOldAndNew]_vars

\* C32: oldCommit is recorded after the first fetch and the status have
\* succeeded and before any reset or clean; no step up to there moves HEAD,
\* so it is the tip the checkout had when the pass began; the detector gets
\* it together with HEAD after the resets.
C32_OldCommitRecordedAfterFetch ==
    [][/\ pc \in {"fetch", "status"} => head' = head
       /\ RecordsOldCommit =>
             /\ gitLog = <<GitCmd("fetch", "origin", TRUE)>>
             /\ oldCommit' = head
       /\ DetectorGetsOldAndNew]_vars

\* Witness for C32: the checkout had diverged, and the detector was called
\* with the local tip as old and the remote tip as new revision
C32_Witness ==
    /\ pc = "classify"
    /\ Diverged
    /\ changesOccurred
    /\ oldCommit = Tip("L", 1)
    /\ head = Tip("R", 1)
    /\ gitLog[1] = GitCmd("fetch", "origin", TRUE)
    /\ changedProjects = {"app"}

\* C33: in a pass every project gets at most one lookup, one create, one
\* start, one update and one redeploy, whatever the outcomes, and no
\* project gets a create and an update.
C33_NoOperationRepeated ==
    \A n \in ProjectNames :
        /\ \A op \in {"find", "create", "start", "update", "redeploy"} :
              Cardinality(RunCalls(op, n)) <= 1
        /\ RunCalls("create", n) = {} \/ RunCalls("update", n) = {}
        /\ RunCalls("find", n) = {} \/ RunCalls("update", n) = {}

\* Witness for C33: the update and the redeploy of app both failed, web was
\* created after a failed start and a failed fallback redeploy, and the
\* pass ended with one request of each kind
C33_Witness ==
    /\ pc = "done"
    /\ \E u \in RunCalls("update", "app"), r \in RunCalls("redeploy", "app") :
          ~apiLog[u].ok /\ ~apiLog[r].ok
    /\ \E c \in RunCalls("create", "web"), t \in RunCalls("start", "web"),
          r \in RunCalls("redeploy", "web") :
          apiLog[c].ok /\ ~apiLog[t].ok /\ ~apiLog[r].ok

\* The git commands of the pass so far, without their outcomes
GitCommands == [i \in DOMAIN gitLog |-> <<gitLog[i].cmd, gitLog[i].target>>]

\* The commands of the behind-only branch for a dirty and for a clean tree
BehindOnlyCommands(dirty) ==
    <<<<"fetch", "origin">>>>
      \o (IF dirty THEN <<<<"reset", "HEAD">>, <<"clean", "-fd">>>> ELSE <<>>)
      \o <<<<"fetch", "origin branch">>, <<"reset", "origin/branch">>>>

\* s is an initial part of t
IsPrefix(s, t) == Len(s) <= Len(t) /\ s = SubSeq(t, 1, Len(s))

\* C34: in the behind-only state the git commands are, in this order, the
\* reset to HEAD and the clean, then the fetch of the branch and the reset to
\* the remote tip when the status reported local changes, and the fetch of
\* the branch and the reset alone when it did not; the synchronizer has
\* completed exactly when all of them have run.
C34_BehindOnlyCommandOrder ==
    BehindOnly =>
        /\ IsPrefix(GitCommands, BehindOnlyCommands(status.HasLocalChange))
        /\ SyncCompleted =>
              GitCommands = BehindOnlyCommands(status.HasLocalChange)

\* Witness for C34: a dirty tree behind the remote, synchronized with the
\* five commands although the reset to HEAD and the clean both failed
C34_Witness ==
    /\ pc = "scan"
    /\ BehindOnly /\ status.HasLocalChange
    /\ Len(gitLog) = 5
    /\ ~gitLog[2].ok /\ ~gitLog[3].ok

\* A clean tree behind the remote, synchronized with the fetch and the reset
C34_WitnessClean ==
    /\ pc = "scan"
    /\ BehindOnly /\ ~status.HasLocalChange
    /\ Len(gitLog) = 3

\* Positions of the guard lookups that failed with an error
FailedLookups == {i \in DOMAIN apiLog : apiLog[i].op = "find" /\ ~apiLog[i].ok}

\* C35: a guard lookup that fails does not skip the project: the warning is
\* logged and the next request is the create call for the same name, also
\* when the server already holds a project of that name; no such warning
\* is logged without a failed lookup.
C35_FailedLookupStillCreates ==
    /\ \A i \in FailedLookups :
          /\ Warning("unverified", apiLog[i].name, <<>>) \in Elements(warnLog)
          /\ IF i = Len(apiLog)
             THEN /\ pc = "create_call"
                  /\ projectsToCreate[idx] = apiLog[i].name
             ELSE /\ apiLog[i + 1].op = "create"
                  /\ apiLog[i + 1].name = apiLog[i].name
    /\ \A w \in Elements(warnLog) :
          w.kind = "unverified" =>
             \E i \in FailedLookups : apiLog[i].name = w.name

\* Witness for C35: the listing failed, the lookup for app failed, and the
\* create that followed gave the server a second project named app
C35_Witness ==
    /\ HeldBefore("app") # <<>>
    /\ arcaneProjects = <<>>
    /\ \E i \in FailedLookups :
          /\ apiLog[i].name = "app"
          /\ i < Len(apiLog)
          /\ apiLog[i + 1].op = "create" /\ apiLog[i + 1].ok
    /\ Len(RemoteNamed("app")) = Len(HeldBefore("app")) + 1

\* Names for which the guard of this pass found entries on the server
Adopted ==
    {n \in ProjectNames :
        \E w \in Elements(warnLog) : w.kind = "exists" /\ w.name = n}

\* C36: once the projects are classified the two lists are the ones the
\* listing and the change-set gave, whatever the guard adopts afterwards,
\* and they share no project; a project whose guard lookup found entries is
\* in the create list only, and the pass sends no update and no redeploy
\* for it, also when it is in the change-set.
C36_AdoptedProjectIsNotSynced ==
    Classified =>
        /\ projectsToCreate =
              SelectSeq(diskProjects,
                        LAMBDA n : IndexByName(arcaneProjects)[n] = <<>>)
        /\ projectsToSync =
              SelectSeq(diskProjects,
                        LAMBDA n : /\ IndexByName(arcaneProjects)[n] # <<>>
                                   /\ n \in changedProjects)
        /\ Elements(projectsToCreate) \cap Elements(projectsToSync) = {}
        /\ \A n \in Adopted :
              /\ n \in Elements(projectsToCreate)
              /\ arcaneProjectsByName[n] # <<>>
              /\ RunCalls("update", n) = {}
              /\ RunCalls("redeploy", n) = {}

\* Witness for C36: app is in the change-set, the guard adopted the entries
\* the server holds for it, and the pass ended
C36_Witness ==
    /\ pc = "done"
    /\ "app" \in Adopted
    /\ "app" \in changedProjects
    /\ arcaneProjectsByName["app"] = HeldBefore("app")

\* Positions of the requests of this pass that name project n
Requests(n) ==
    {i \in DOMAIN apiLog : apiLog[i].run = run /\ apiLog[i].name = n}

\* The redeploy at position i is the fallback of a start that failed for a
\* project created by the request before it
IsFallbackRedeploy(i) ==
    /\ i > 2
    /\ apiLog[i - 1].op = "start" /\ ~apiLog[i - 1].ok
    /\ apiLog[i - 1].name = apiLog[i].name
    /\ apiLog[i - 2].op = "create" /\ apiLog[i - 2].ok
    /\ apiLog[i - 2].name = apiLog[i].name

\* C37 as stated: with git in sync or ahead only, no update is sent, every
\* redeploy is the fallback of a failed start of a project just created,
\* and a project the server already holds receives no request other than
\* a lookup.
C37_ExistingProjectsUntouched ==
    (InSyncState \/ AheadOnly) =>
        /\ \A i \in DOMAIN apiLog : apiLog[i].op # "update"
        /\ \A i \in DOMAIN apiLog :
              apiLog[i].op = "redeploy" => IsFallbackRedeploy(i)
        /\ \A n \in ProjectNames :
              HeldBefore(n) # <<>> =>
                 \A i \in Requests(n) : apiLog[i].op = "find"

\* C37 (amended): with git in sync or ahead only, no update is sent and
\* every redeploy is the fallback of a failed start of a project just
\* created; a project the listing returned receives no request; a project
\* the server holds but the listing missed receives the guard lookup, and a
\* create only right after that lookup failed.
C37_ListedProjectsUntouched ==
    (InSyncState \/ AheadOnly) =>
        /\ changedProjects = {} /\ projectsToSync = <<>>
        /\ \A i \in DOMAIN apiLog : apiLog[i].op # "update"
        /\ \A i \in DOMAIN apiLog :
              apiLog[i].op = "redeploy" => IsFallbackRedeploy(i)
        /\ \A n \in ProjectNames :
              IndexByName(arcaneProjects)[n] # <<>> => Requests(n) = {}
        /\ \A n \in ProjectNames :
              HeldBefore(n) # <<>> =>
                 \A i \in Requests(n) :
                    /\ apiLog[i].op \in {"find", "create", "start", "redeploy"}
                    /\ apiLog[i].op = "create" => (i - 1) \in FailedLookups

\* Witness for C37: a pass that found local commits only, discarded them,
\* listed app on the server and web not, and ended after creating web and
\* redeploying it because its start failed, with no request for app
C37_Witness ==
    /\ pc = "done"
    /\ AheadOnly
    /\ IndexByName(arcaneProjects)["app"] # <<>>
    /\ Requests("app") = {}
    /\ \E i \in Requests("web") : apiLog[i].op = "redeploy"

\* A pass with git in sync whose listing failed: the lookup for app, which
\* the server holds, failed too and a second app was created
C37_WitnessMissed ==
    /\ pc = "done"
    /\ InSyncState
    /\ HeldBefore("app") # <<>>
    /\ \E i \in Requests("app") : apiLog[i].op = "create" /\ apiLog[i].ok

\* git diff failed in the detector of this pass
DiffFailedInPass == \E w \in Elements(warnLog) : w.kind = "diff"

\* C38: when git diff fails in the detector, the change-set is empty and
\* the pass goes on: it does not exit, no project is classified sync, no
\* update and no sync redeploy is sent, and the projects classified create
\* are those the listing does not hold.
C38_DiffFailureMeansEmptyChangeSet ==
    DiffFailedInPass =>
        /\ changesOccurred /\ oldCommit # head
        /\ pc \in (EnginePcs \cup {"done"}) \ {"scan", "list", "detect"}
        /\ changedProjects = {}
        /\ projectsToSync = <<>>
        /\ \A i \in DOMAIN apiLog :
              /\ apiLog[i].op # "update"
              /\ apiLog[i].op = "redeploy" => IsFallbackRedeploy(i)
              /\ apiLog[i].op = "create" =>
                    IndexByName(arcaneProjects)[apiLog[i].name] = <<>>
        /\ Classified =>
              projectsToCreate =
                 SelectSeq(diskProjects,
                           LAMBDA n : IndexByName(arcaneProjects)[n] = <<>>)

\* Witness for C38: the remote tip was pulled, git diff failed, and the pass
\* ended after creating web, with no request for app, which the listing
\* holds
C38_Witness ==
    /\ pc = "done"
    /\ DiffFailedInPass
    /\ IndexByName(arcaneProjects)["app"] # <<>>
    /\ Requests("app") = {}
    /\ \E i \in Requests("web") : apiLog[i].op = "create" /\ apiLog[i].ok

\* Position of project n in the disk listing
DiskPosition(n) == CHOOSE k \in DOMAIN diskProjects : diskProjects[k] = n

\* Positions of the requests of the create loop and of the sync loop
CreatePathRequests ==
    {i \in DOMAIN apiLog : apiLog[i].name \in Elements(projectsToCreate)}

SyncPathRequests ==
    {i \in DOMAIN apiLog : apiLog[i].name \in Elements(projectsToSync)}

\* The requests at `positions` come project by project in disk order
InDiskOrder(positions) ==
    \A i, j \in positions :
        i < j => DiskPosition(apiLog[i].name) <= DiskPosition(apiLog[j].name)

\* C39: the requests for the projects classified create are lookups,
\* creates, starts and fallback redeploys, those for the projects classified
\* sync are updates and redeploys; every request of the first kind comes
\* before every request of the second kind, none of the second kind is sent
\* while the create loop runs, and within each kind the requests come
\* project by project in the order of the disk listing.
C39_CreatePhaseBeforeSyncPhase ==
    Classified =>
        /\ \A i \in CreatePathRequests :
              /\ apiLog[i].op \in {"find", "create", "start", "redeploy"}
              /\ apiLog[i].op = "redeploy" => IsFallbackRedeploy(i)
        /\ \A j \in SyncPathRequests : apiLog[j].op \in {"update", "redeploy"}
        /\ \A i \in CreatePathRequests, j \in SyncPathRequests : i < j
        /\ InDiskOrder(CreatePathRequests)
        /\ InDiskOrder(SyncPathRequests)
        /\ pc \in {"create_read", "create_guard", "create_call", "create_start",
                  "create_redeploy"} => SyncPathRequests = {}

\* Witness for C39: web was missing and app changed; web was looked up,
\* created, started and, its start having failed, redeployed before the
\* update of app, although app comes first on disk
C39_Witness ==
    /\ pc = "done"
    /\ projectsToCreate = <<"web">> /\ projectsToSync = <<"app">>
    /\ Cardinality(CreatePathRequests) = 4
    /\ Cardinality(SyncPathRequests) = 2

\* Both projects created, app before web
C39_WitnessCreates ==
    /\ pc = "done"
    /\ projectsToCreate = <<"app", "web">>
    /\ \E i, j \in CreatePathRequests :
          /\ i < j
          /\ apiLog[i].op = "create" /\ apiLog[i].name = "app"
          /\ apiLog[j].op = "create" /\ apiLog[j].name = "web"

\* Both projects synced, app before web although the server lists web first
C39_WitnessSyncs ==
    /\ pc = "done"
    /\ projectsToSync = <<"app", "web">>
    /\ arcaneProjects[1].Name = "web"
    /\ \E i, j \in SyncPathRequests :
          /\ i < j
          /\ apiLog[i].op = "redeploy" /\ apiLog[i].name = "app"
          /\ apiLog[j].op = "update" /\ apiLog[j].name = "web"

C40_NoExitWithoutTotal ==
    (/\ Len(remote) >= pageSize
     /\ \A i \in DOMAIN apiLog : apiLog[i].ok /\ PageField(i, "total") = 0) =>
        /\ pc = "page"
        /\ start = Len(apiLog) * pageSize
        /\ Len(all) = start

\* The loop is still running after MaxRequests answers, each of them a full
\* page of pageSize entries without a total, and holds them all
C40_StillPaging ==
    /\ pc = "page"
    /\ Len(apiLog) = MaxRequests
    /\ start = MaxRequests * pageSize
    /\ Len(all) = MaxRequests * pageSize
    /\ \A i \in DOMAIN apiLog : apiLog[i].ok /\ PageField(i, "total") = 0
====
